---- MODULE Spec2Model ----
(***************************************************************************)
(* A model of the HTTP request/response validation layer of the           *)
(* mocha-chai-superagent-demo harness:                                     *)
(*   - retry (test/utils/test-helpers.js), the exponential-backoff helper  *)
(*   - HttpClient (test/utils/http-client.js), the timed client            *)
(*   - the chai method responseTime and validateResponseTime               *)
(*   - responseValidations and schemaValidations (test-helpers.js)         *)
(*   - BaseApiClient, BasePageObject, UsersApiClient, CommentsApiClient    *)
(* The specifications share the variables and the initial state:          *)
(*   SpecRetry       one call of retry, fn failing or succeeding at will   *)
(*   SpecClient      one HttpClient, every transport answer, a clock       *)
(*   SpecHeaders     one HttpClient, its setters and per-call overrides    *)
(*   SpecConcurrent  getById calls in flight, joined by Promise.all        *)
(*   SpecValidate    validateResponseTime on one response object           *)
(*   SpecArgs        verb calls with arguments left out                    *)
(*   SpecFrame       setters and verb calls, the calls failing or not      *)
(*   SpecChecks      the assertion helpers and the resource-client         *)
(*                   operations, each applied to one answer                *)
(* Date.now() is taken to be non-decreasing.                               *)
(***************************************************************************)
EXTENDS Integers, Sequences, FiniteSets, TLC

VARIABLES
  \* ---- retry(fn, maxRetries, delay)
  rt_pc,         \* "idle" | "running" (awaiting fn()) | "sleeping" | "returned" | "thrown"
  rt_maxRetries, \* argument maxRetries
  rt_delay,      \* argument delay (the base delay)
  rt_i,          \* the loop counter i
  rt_lastError,  \* the local lastError
  rt_sleepMs,    \* the argument of the pending sleep(ms)
  rt_result,     \* what the promise of retry settled with
  rt_log,        \* what fn and sleep saw, in order: calls, outcomes, delays
  \* ---- HttpClient
  defaultHeaders, \* this.defaultHeaders
  now,            \* Date.now()
  reqs,           \* the verb calls made so far, in call order
  hist,           \* the calls made on the client, in order (setters and verbs)
  userPromises,   \* the promises of the getById calls of a fan-out, in call order
  joined,         \* the promise of Promise.all over them
  \* ---- validateResponseTime
  vr_pc,          \* "ready" | "passed" | "failed"
  vr_resp,        \* the response object handed to the check
  vr_max,         \* the argument maxTime
  \* ---- the assertion helpers and the resource-client operations
  ck_op,          \* the operation applied, "none" before
  ck_in,          \* its arguments
  ck_out,         \* its outcome: returned (with a value) or raised
  \* ---- several HttpClient instances over one configuration
  hp_heap,        \* the header objects that exist, by reference
  hp_clients,     \* the instances: for each, the reference in this.defaultHeaders
  hp_hist         \* the constructions and calls made, in order

rtVars == <<rt_pc, rt_maxRetries, rt_delay, rt_i, rt_lastError, rt_sleepMs,
            rt_result, rt_log>>
clVars == <<defaultHeaders, now, reqs, hist, userPromises, joined>>
vrVars == <<vr_pc, vr_resp, vr_max>>
ckVars == <<ck_op, ck_in, ck_out>>
hpVars == <<hp_heap, hp_clients, hp_hist>>
vars == <<rtVars, clVars, vrVars, ckVars, hpVars>>

\* JavaScript's undefined: an absent property, an unset local.
Undefined == "undefined"

(***************************************************************************)
(* Bounds of the model.                                                    *)
(***************************************************************************)
MaxRetriesArg == 3   \* retry is called with maxRetries in -1..MaxRetriesArg
MaxBase == 3         \* retry is called with delay in 0..MaxBase

(***************************************************************************)
(* retry                                                                   *)
(***************************************************************************)
\* The values fn may resolve with and the errors it may reject with.
FnValues == {"v1", "v2"}
FnErrors == {"e1", "e2", "e404"}

RECURSIVE Pow2(_)
\* Math.pow(2, i)
Pow2(i) == IF i <= 0 THEN 1 ELSE 2 * Pow2(i - 1)

\* delay * Math.pow(2, i), the argument of sleep
\* (faulty variant: a backoff that grows linearly)
BackoffMutantLinear(delay, i) == delay * (i + 1)
Backoff(delay, i) == delay * Pow2(i)

\* lastError = error, the first statement of the catch block
\* (faulty variant: lastError = lastError || error, which keeps the first).
CatchAssignMutantKeepFirst(lastError, error) ==
  IF lastError = Undefined THEN error ELSE lastError
CatchAssign(lastError, error) == error

\* The loop test i <= maxRetries.
LoopGuard(i, maxRetries) == i <= maxRetries

\* if (i === maxRetries) throw lastError, in the catch block of error
\* (faulty variant: a client error is not retried)
GiveUpMutantClientError(error, i, maxRetries) == i = maxRetries \/ error = "e404"
\* (faulty variant: the catch block never rethrows, it always sleeps)
GiveUpMutantNever(error, i, maxRetries) == FALSE
GiveUp(error, i, maxRetries) == i = maxRetries

InitRetry ==
  /\ rt_pc = "idle"
  /\ rt_maxRetries = 0
  /\ rt_delay = 0
  /\ rt_i = 0
  /\ rt_lastError = Undefined
  /\ rt_sleepMs = 0
  /\ rt_result = Undefined
  /\ rt_log = <<>>

\* retry(fn, maxRetries, delay) is called: i = 0, and if the loop test holds
\* fn() is invoked at once; otherwise the loop body never runs and the promise
\* resolves with undefined.
RetryCall(maxRetries, delay) ==
  /\ rt_pc = "idle"
  /\ rt_maxRetries' = maxRetries
  /\ rt_delay' = delay
  /\ rt_i' = 0
  /\ IF LoopGuard(0, maxRetries)
       THEN /\ rt_pc' = "running"
            /\ rt_log' = <<[ev |-> "call", val |-> 0]>>
            /\ rt_result' = rt_result
       ELSE /\ rt_pc' = "returned"
            /\ rt_log' = <<>>
            /\ rt_result' = Undefined
  /\ UNCHANGED <<rt_lastError, rt_sleepMs>>
  /\ UNCHANGED <<clVars, vrVars, ckVars, hpVars>>

\* await fn() resolves with v: return it.
FnResolves(v) ==
  /\ rt_pc = "running"
  /\ rt_pc' = "returned"
  /\ rt_result' = v
  /\ rt_log' = Append(rt_log, [ev |-> "ok", val |-> v])
  /\ UNCHANGED <<rt_maxRetries, rt_delay, rt_i, rt_lastError, rt_sleepMs>>
  /\ UNCHANGED <<clVars, vrVars, ckVars, hpVars>>

\* await fn() rejects with error: the catch block.
FnRejects(error) ==
  /\ rt_pc = "running"
  /\ rt_lastError' = CatchAssign(rt_lastError, error)
  /\ IF GiveUp(error, rt_i, rt_maxRetries)
       THEN /\ rt_pc' = "thrown"
            /\ rt_result' = rt_lastError'
            /\ rt_sleepMs' = rt_sleepMs
            /\ rt_log' = Append(rt_log, [ev |-> "fail", val |-> error])
       ELSE /\ rt_pc' = "sleeping"
            /\ rt_sleepMs' = Backoff(rt_delay, rt_i)
            /\ rt_result' = rt_result
            /\ rt_log' = Append(rt_log, [ev |-> "fail", val |-> error])
  /\ UNCHANGED <<rt_maxRetries, rt_delay, rt_i>>
  /\ UNCHANGED <<clVars, vrVars, ckVars, hpVars>>

\* The timer of sleep(ms) fires: i++, the loop test, the next fn().
SleepElapsed ==
  /\ rt_pc = "sleeping"
  /\ rt_i' = rt_i + 1
  /\ IF LoopGuard(rt_i + 1, rt_maxRetries)
       THEN /\ rt_pc' = "running"
            /\ rt_log' = rt_log \o <<[ev |-> "delay", val |-> rt_sleepMs],
                                     [ev |-> "call", val |-> rt_i + 1]>>
            /\ rt_result' = rt_result
       ELSE /\ rt_pc' = "returned"
            /\ rt_log' = Append(rt_log, [ev |-> "delay", val |-> rt_sleepMs])
            /\ rt_result' = Undefined
  /\ UNCHANGED <<rt_maxRetries, rt_delay, rt_lastError, rt_sleepMs>>
  /\ UNCHANGED <<clVars, vrVars, ckVars, hpVars>>

NextRetry ==
  \/ \E m \in -1 .. MaxRetriesArg, d \in 0 .. MaxBase : RetryCall(m, d)
  \/ \E v \in FnValues : FnResolves(v)
  \/ \E e \in FnErrors : FnRejects(e)
  \/ SleepElapsed

(***************************************************************************)
(* HttpClient                                                              *)
(***************************************************************************)
\* An object with no own property.
EmptyObj == <<>>

\* obj with property k set to v (obj.k = v, or one step of a spread).
SetProp(obj, k, v) ==
  [x \in DOMAIN obj \cup {k} |-> IF x = k THEN v ELSE obj[x]]

\* { ...a, ...b }: the own properties of a, then those of b, copied in turn
\* into a fresh object; a later copy of a key overwrites the earlier one
\* (faulty variant: { ...b, ...a }, where the defaults win).
SpreadMutantLeftBiased(a, b) ==
  [k \in DOMAIN a \cup DOMAIN b |-> IF k \in DOMAIN a THEN a[k] ELSE b[k]]
Spread(a, b) ==
  [k \in DOMAIN a \cup DOMAIN b |-> IF k \in DOMAIN b THEN b[k] ELSE a[k]]

\* config.baseUrls.jsonplaceholder, config.timeout, config.defaultHeaders
BaseUrl == "https://jsonplaceholder.typicode.com"
ConfigTimeout == 10000
ConfigDefaultHeaders ==
  ("Content-Type" :> "application/json") @@ ("Accept" :> "application/json")

\* `Bearer ${token}` (faulty variant: the bare token)
BearerMutantBare(token) == token
Bearer(token) == "Bearer " \o token

\* An argument that is a string, and an argument left out (undefined).
JsString(s) == [tag |-> "string", s |-> s]
Omitted == [tag |-> "undefined"]

\* `${v}`: the string itself, and "undefined" for undefined
TemplateValue(v) == IF v = Omitted THEN "undefined" ELSE v.s

\* buildUrl: `${this.baseUrl}${endpoint}`
BuildUrl(endpoint) == BaseUrl \o TemplateValue(endpoint)

\* What the transport (superagent) may answer a request with.  A response is
\* an object with status and body and, until the client adds it, no duration;
\* req names the request the transport made it for.
NoResponse == [tag |-> "undefined"]
TransportResponse(i, status) ==
  [tag |-> "response", req |-> i, status |-> status, body |-> "body"]
OkStatuses == {200}
ErrorStatuses == {404, 500}
TransportMessage == "ECONNRESET"
\* A rejection: an Error with, possibly, a response and a timeout flag.
TransportError(i, response, timeout) ==
  [origin |-> "transport", req |-> i, response |-> response,
   timeout |-> timeout, message |-> TransportMessage]
NoAnswer == [kind |-> "none"]
NoOutcome == [kind |-> "pending"]

\* `Request timeout after ${this.timeout}ms` and `Network error: ${error.message}`
TimeoutMessage == "Request timeout after " \o ToString(ConfigTimeout) \o "ms"
NetworkMessage(message) == "Network error: " \o message

\* addTimingInfo: response.duration = Date.now() - startTime; return response
\* (faulty variant: startTime - endTime)
AddTimingInfoMutantSwapped(response, startTime, endTime) ==
  SetProp(response, "duration", startTime - endTime)
AddTimingInfo(response, startTime, endTime) ==
  SetProp(response, "duration", endTime - startTime)

\* handleError: the outcome of the verb operation whose transport call was
\* rejected with error.  Every branch throws.
\* (faulty variants: one that returns when there is no response, one without
\* the timeout branch, one that wraps an HTTP error as a network error)
HandleErrorMutantSwallow(error, startTime, endTime) ==
  IF error.response # NoResponse
    THEN [kind |-> "raised",
          error |-> [error EXCEPT
                       !.response = AddTimingInfo(@, startTime, endTime)]]
    ELSE [kind |-> "returned", value |-> NoResponse]
HandleErrorMutantNoTimeout(error, startTime, endTime) ==
  IF error.response # NoResponse
    THEN [kind |-> "raised",
          error |-> [error EXCEPT
                       !.response = AddTimingInfo(@, startTime, endTime)]]
    ELSE [kind |-> "raised",
          error |-> [origin |-> "HttpClient", response |-> NoResponse,
                     message |-> NetworkMessage(error.message)]]
HandleErrorMutantDropStatus(error, startTime, endTime) ==
  IF error.response # NoResponse
    THEN [kind |-> "raised",
          error |-> [origin |-> "HttpClient", response |-> NoResponse,
                     message |-> NetworkMessage(error.message)]]
    ELSE IF error.timeout
      THEN [kind |-> "raised",
            error |-> [origin |-> "HttpClient", response |-> NoResponse,
                       message |-> TimeoutMessage]]
      ELSE [kind |-> "raised",
            error |-> [origin |-> "HttpClient", response |-> NoResponse,
                       message |-> NetworkMessage(error.message)]]
HandleError(error, startTime, endTime) ==
  IF error.response # NoResponse
    THEN [kind |-> "raised",
          error |-> [error EXCEPT
                       !.response = AddTimingInfo(@, startTime, endTime)]]
    ELSE IF error.timeout
      THEN [kind |-> "raised",
            error |-> [origin |-> "HttpClient", response |-> NoResponse,
                       message |-> TimeoutMessage]]
      ELSE [kind |-> "raised",
            error |-> [origin |-> "HttpClient", response |-> NoResponse,
                       message |-> NetworkMessage(error.message)]]

InitClient ==
  /\ defaultHeaders = ConfigDefaultHeaders
  /\ now = 0
  /\ reqs = <<>>
  /\ hist = <<>>
  /\ userPromises = <<>>
  /\ joined = [state |-> "none"]

\* setDefaultHeaders(headers)
\* (faulty variant: requests in flight hold the default headers by reference
\* and see them change)
SetDefaultHeadersMutantLive(headers) ==
  /\ defaultHeaders' = Spread(defaultHeaders, headers)
  /\ hist' = Append(hist, [op |-> "setDefaultHeaders", arg |-> headers])
  /\ reqs' = [i \in 1 .. Len(reqs) |->
               IF reqs[i].phase = "inflight"
                 THEN [reqs[i] EXCEPT !.sent = Spread(@, headers)]
                 ELSE reqs[i]]
  /\ UNCHANGED <<now, joined, userPromises>>
  /\ UNCHANGED <<rtVars, vrVars, ckVars, hpVars>>
\* (faulty variant: this.defaultHeaders = headers, the argument replaces the
\* defaults)
SetDefaultHeadersMutantReplace(headers) ==
  /\ defaultHeaders' = headers
  /\ hist' = Append(hist, [op |-> "setDefaultHeaders", arg |-> headers])
  /\ UNCHANGED <<now, reqs, joined, userPromises>>
  /\ UNCHANGED <<rtVars, vrVars, ckVars, hpVars>>
SetDefaultHeaders(headers) ==
  /\ defaultHeaders' = Spread(defaultHeaders, headers)
  /\ hist' = Append(hist, [op |-> "setDefaultHeaders", arg |-> headers])
  /\ UNCHANGED <<now, reqs, joined, userPromises>>
  /\ UNCHANGED <<rtVars, vrVars, ckVars, hpVars>>

\* setAuthToken(token)
SetAuthToken(token) ==
  /\ defaultHeaders' = Spread(defaultHeaders, "Authorization" :> Bearer(token))
  /\ hist' = Append(hist, [op |-> "setAuthToken", arg |-> token])
  /\ UNCHANGED <<now, reqs, joined, userPromises>>
  /\ UNCHANGED <<rtVars, vrVars, ckVars, hpVars>>

\* The part the five verb operations share, up to their await: the start
\* timestamp, the URL, the merged headers, the timeout, and the dispatch.
\* body is what .send() was given (NoBody for get and delete).
NoBody == [tag |-> "undefined"]
\* A parameter default: (data = {}, headers = {})
\* (faulty variant: no default, the argument as given)
DefaultArgMutantAsGiven(arg, dflt) == arg
DefaultArg(arg, dflt) == IF arg = Omitted THEN dflt ELSE arg
\* data is the argument as the caller gave it (kept in hist only).
\* (faulty variant: the merged headers are stored as the new defaults)
DispatchMutantKeepsOverrides(verb, endpoint, data, body, headers) ==
  /\ reqs' = Append(reqs,
       [verb |-> verb, url |-> BuildUrl(endpoint), body |-> body,
        sent |-> Spread(defaultHeaders, headers), timeout |-> ConfigTimeout,
        start |-> now, phase |-> "inflight",
        ans |-> NoAnswer, ansAt |-> 0, endAt |-> 0, out |-> NoOutcome])
  /\ hist' = Append(hist, [op |-> verb, arg |-> headers,
                           defaults |-> defaultHeaders, req |-> Len(reqs) + 1,
                           endpoint |-> endpoint, data |-> data])
  /\ defaultHeaders' = Spread(defaultHeaders, headers)
  /\ UNCHANGED <<now, joined, userPromises>>
  /\ UNCHANGED <<rtVars, vrVars, ckVars, hpVars>>
Send(verb, endpoint, data, body, headers) ==
  /\ reqs' = Append(reqs,
       [verb |-> verb, url |-> BuildUrl(endpoint), body |-> body,
        sent |-> Spread(defaultHeaders, headers), timeout |-> ConfigTimeout,
        start |-> now, phase |-> "inflight",
        ans |-> NoAnswer, ansAt |-> 0, endAt |-> 0, out |-> NoOutcome])
  /\ hist' = Append(hist, [op |-> verb, arg |-> headers,
                           defaults |-> defaultHeaders, req |-> Len(reqs) + 1,
                           endpoint |-> endpoint, data |-> data])
  /\ UNCHANGED <<defaultHeaders, now, joined>>
Dispatch(verb, endpoint, data, body, headers) ==
  /\ Send(verb, endpoint, data, body, headers)
  /\ UNCHANGED userPromises
  /\ UNCHANGED <<rtVars, vrVars, ckVars, hpVars>>

Get(endpoint, headers) ==
  Dispatch("get", endpoint, NoBody, NoBody, DefaultArg(headers, EmptyObj))
Post(endpoint, data, headers) ==
  Dispatch("post", endpoint, data, DefaultArg(data, EmptyObj),
           DefaultArg(headers, EmptyObj))
Put(endpoint, data, headers) ==
  Dispatch("put", endpoint, data, DefaultArg(data, EmptyObj),
           DefaultArg(headers, EmptyObj))
Patch(endpoint, data, headers) ==
  Dispatch("patch", endpoint, data, DefaultArg(data, EmptyObj),
           DefaultArg(headers, EmptyObj))
Delete(endpoint, headers) ==
  Dispatch("delete", endpoint, NoBody, NoBody, DefaultArg(headers, EmptyObj))

\* The transport settles the promise request i awaits, with any answer: a
\* response it resolves with, or an error it rejects with.
TransportAnswers(i, ans) ==
  /\ i \in 1 .. Len(reqs)
  /\ reqs[i].phase = "inflight"
  /\ reqs' = [reqs EXCEPT ![i].phase = "settled", ![i].ans = ans, ![i].ansAt = now]
  /\ UNCHANGED <<defaultHeaders, now, hist, joined, userPromises>>
  /\ UNCHANGED <<rtVars, vrVars, ckVars, hpVars>>

\* The transport settles the promise request i awaits.
TransportResolves(i, status) ==
  /\ i \in 1 .. Len(reqs)
  /\ reqs[i].phase = "inflight"
  /\ reqs' = [reqs EXCEPT ![i].phase = "settled",
                          ![i].ans = [kind |-> "response",
                                      response |-> TransportResponse(i, status)],
                          ![i].ansAt = now]
  /\ UNCHANGED <<defaultHeaders, now, hist, joined, userPromises>>
  /\ UNCHANGED <<rtVars, vrVars, ckVars, hpVars>>

TransportRejects(i, response, timeout) ==
  /\ i \in 1 .. Len(reqs)
  /\ reqs[i].phase = "inflight"
  /\ reqs' = [reqs EXCEPT ![i].phase = "settled",
                          ![i].ans = [kind |-> "error",
                                      error |-> TransportError(i, response, timeout)],
                          ![i].ansAt = now]
  /\ UNCHANGED <<defaultHeaders, now, hist, joined, userPromises>>
  /\ UNCHANGED <<rtVars, vrVars, ckVars, hpVars>>

\* The rest of the verb operation, after its await: return
\* this.addTimingInfo(response, startTime), or the catch block's
\* this.handleError(error, startTime).
\* (faulty variant: the start timestamp kept in one place for all calls, so
\* that each call overwrites it)
VerbOutcomeMutantSharedStart(r, endTime) ==
  IF r.ans.kind = "response"
    THEN [kind |-> "returned",
          value |-> AddTimingInfo(r.ans.response, reqs[Len(reqs)].start, endTime)]
    ELSE HandleError(r.ans.error, reqs[Len(reqs)].start, endTime)
VerbOutcome(r, endTime) ==
  IF r.ans.kind = "response"
    THEN [kind |-> "returned",
          value |-> AddTimingInfo(r.ans.response, r.start, endTime)]
    ELSE HandleError(r.ans.error, r.start, endTime)

\* The continuation of verb call i runs and settles the promise of the call.
Continue(i) ==
  /\ i \in 1 .. Len(reqs)
  /\ reqs[i].phase = "settled"
  /\ reqs' = [reqs EXCEPT ![i].phase = "done",
                          ![i].endAt = now,
                          ![i].out = VerbOutcome(reqs[i], now)]
  /\ UNCHANGED <<defaultHeaders, now, hist, joined, userPromises>>
  /\ UNCHANGED <<rtVars, vrVars, ckVars, hpVars>>

\* A millisecond passes.
Tick ==
  /\ now' = now + 1
  /\ UNCHANGED <<defaultHeaders, reqs, hist, joined, userPromises>>
  /\ UNCHANGED <<rtVars, vrVars, ckVars, hpVars>>


(***************************************************************************)
(* validateResponseTime and the chai method responseTime                   *)
(***************************************************************************)
\* A JavaScript value that is a number or undefined.
JsUndefined == [def |-> FALSE]
JsNum(n) == [def |-> TRUE, v |-> n]

\* obj.k: the property, or undefined when obj has none of that name
Prop(obj, k) == IF k \in DOMAIN obj THEN JsNum(obj[k]) ELSE JsUndefined

\* a || b: a when a is truthy (a number other than 0), b otherwise
JsOr(a, b) == IF a.def /\ a.v # 0 THEN a ELSE b

\* a <= b: false when either side is undefined (NaN)
JsLe(a, b) == a.def /\ b.def /\ a.v <= b.v

\* const actualTime = obj.duration || obj.responseTime
ActualTime(obj) == JsOr(Prop(obj, "duration"), Prop(obj, "responseTime"))

\* the chai method responseTime: this.assert(actualTime <= expectedTime, ...)
ResponseTimeAssertion(obj, expectedTime) == JsLe(ActualTime(obj), expectedTime)

\* validateResponseTime (response, maxTime = 3000)
DefaultMaxTime == 3000
MaxTimeArg(maxTime) == IF maxTime.def THEN maxTime ELSE JsNum(DefaultMaxTime)

InitValidate ==
  /\ vr_pc = "ready"
  /\ vr_resp = EmptyObj
  /\ vr_max = JsUndefined

\* validateResponseTime(response, maxTime): completes silently ("passed") or
\* throws an AssertionError ("failed").
ValidateResponseTime(response, maxTime) ==
  /\ vr_pc = "ready"
  /\ vr_resp' = response
  /\ vr_max' = MaxTimeArg(maxTime)
  /\ vr_pc' = IF ResponseTimeAssertion(response, MaxTimeArg(maxTime))
                THEN "passed" ELSE "failed"
  /\ UNCHANGED <<rtVars, clVars, ckVars, hpVars>>

(***************************************************************************)
(* The assertion helpers and the resource-client operations.  Each is      *)
(* applied once: ck_op names it, ck_in holds its arguments and ck_out its  *)
(* outcome.                                                                *)
(***************************************************************************)
InitChecks ==
  /\ ck_op = "none"
  /\ ck_in = EmptyObj
  /\ ck_out = NoOutcome

Returned(value) == [kind |-> "returned", value |-> value]
\* What a failed expect(...) throws: an AssertionError, which has no response.
AssertionError(message) ==
  [kind |-> "raised",
   error |-> [origin |-> "chai", response |-> NoResponse, message |-> message]]

\* this.client.get(endpoint) and this.client.post(endpoint, data), as the
\* resource clients and page objects call them: on the HttpClient, without
\* header overrides.
ClientGet(endpoint) ==
  Send("get", endpoint, NoBody, NoBody, DefaultArg(Omitted, EmptyObj))
ClientPost(endpoint, data) ==
  Send("post", endpoint, data, DefaultArg(data, EmptyObj),
       DefaultArg(Omitted, EmptyObj))

\* An async operation runs up to its await in the step that calls it: it
\* has made its request and is suspended, its promise pending.
Suspend(op, args) ==
  /\ ck_op = "none"
  /\ ck_op' = op
  /\ ck_in' = args @@ [req |-> Len(reqs) + 1]
  /\ ck_out' = NoOutcome
  /\ UNCHANGED userPromises
  /\ UNCHANGED <<rtVars, vrVars, hpVars>>
\* The operations ops are suspended at the await of a verb call that has
\* completed: their continuation can run.
Resumable(ops) ==
  /\ ck_op \in ops
  /\ ck_out = NoOutcome
  /\ reqs[ck_in.req].phase = "done"
\* what the awaited verb call returned or raised
Awaited == reqs[ck_in.req].out
\* The continuation runs to the end of the operation, which settles with
\* outcome.
Resume(outcome) ==
  /\ ck_out' = outcome
  /\ UNCHANGED <<ck_op, ck_in>>
  /\ UNCHANGED <<rtVars, clVars, vrVars, hpVars>>
\* An operation that awaits, or returns, the promise of another async
\* operation: when that one settles with inner, the outer one is still
\* pending; it goes on in a later step.
InnerSettled(inner) == [kind |-> "pending", inner |-> inner]
OuterResumable(ops) ==
  /\ ck_op \in ops
  /\ ck_out.kind = "pending"
  /\ "inner" \in DOMAIN ck_out

\* The chai method clientErrorStatus:
\*   const status = obj.status || obj.statusCode
\*   this.assert(status >= 400 && status < 500, ...)
\* (faulty variant: any status from 400 up)
ClientErrorStatusMutantAnyError(obj) ==
  LET status == JsOr(Prop(obj, "status"), Prop(obj, "statusCode"))
  IN status.def /\ status.v >= 400
ClientErrorStatus(obj) ==
  LET status == JsOr(Prop(obj, "status"), Prop(obj, "statusCode"))
  IN status.def /\ status.v >= 400 /\ status.v < 500

\* expectClientError (requestFn, expectedStatus = 400)
DefaultClientErrorStatus == 400
ExpectedClientErrorArg(expectedStatus) ==
  IF expectedStatus.def THEN expectedStatus.v ELSE DefaultClientErrorStatus

\* new Error('Expected request to fail but it succeeded')
ExpectedFailureError ==
  [origin |-> "expectClientError", response |-> NoResponse,
   message |-> "Expected request to fail but it succeeded"]

\* The body of expectClientError, given the outcome of `await requestFn()`:
\* the error thrown in the try block, the one made there when requestFn
\* succeeded included, reaches the catch block.
ExpectClientErrorOutcome(outcome, expectedStatus) ==
  LET error == IF outcome.kind = "returned" THEN ExpectedFailureError
               ELSE outcome.error
  IN IF error.response # NoResponse
       THEN IF ~ClientErrorStatus(error.response)
              THEN AssertionError("expected response to have client error status")
            ELSE IF error.response.status # expectedStatus
              THEN AssertionError("expected status to equal expectedStatus")
            ELSE Returned(error.response)
       ELSE [kind |-> "raised", error |-> error]

\* expectClientError(requestFn, expectedStatus), requestFn being
\* () => this.client.get(endpoint): up to `await requestFn()`.
ExpectClientError(endpoint, expectedStatus) ==
  /\ Suspend("expectClientError", [expectedStatus |-> expectedStatus])
  /\ ClientGet(endpoint)
\* The rest of expectClientError, after `await requestFn()`; for
\* verifyNotFound it settles the promise verifyNotFound returns.
ExpectClientErrorContinue ==
  /\ Resumable({"expectClientError", "verifyNotFound"})
  /\ LET outcome == ExpectClientErrorOutcome(Awaited,
                                             ExpectedClientErrorArg(ck_in.expectedStatus))
     IN Resume(IF ck_op = "verifyNotFound" THEN InnerSettled(outcome) ELSE outcome)

\* verifyNotFound(id): expectClientError(() => this.client.get(...), 404)
NotFoundStatus == 404
VerifyNotFound(userId) ==
  /\ Suspend("verifyNotFound", [userId |-> userId,
                                expectedStatus |-> JsNum(NotFoundStatus)])
  /\ ClientGet(JsString("/users/" \o ToString(userId)))
\* The promise of verifyNotFound takes the outcome of the promise it returned.
VerifyNotFoundSettles ==
  /\ OuterResumable({"verifyNotFound"})
  /\ Resume(ck_out.inner)

\* JavaScript values, each with the type chai's .a()/.an() sees (type-detect):
\* a number, a string (JsString), a plain object, an array, null, and
\* undefined (Omitted).
JsNumber(n) == [tag |-> "number", v |-> n]
JsObject(props) == [tag |-> "object", props |-> props]
JsArray(items) == [tag |-> "array", items |-> items]
JsNull == [tag |-> "null"]

\* expect(v).to.be.a(type)
IsA(v, type) == v.tag = type

\* expect(v).to.have.property(name): v has the property (an assertion on null
\* or undefined throws; the names asked for are no property of an array, a
\* string or a number)
HasProperty(v, name) == v.tag = "object" /\ name \in DOMAIN v.props

\* expect(v).to.have.property(name).that.is.a(type)
PropertyIsA(v, name, type) == HasProperty(v, name) /\ IsA(v.props[name], type)

\* validateUserSchema: an object with the eight typed properties, each
\* expect in turn
\* (faulty variant: without the company check)
UserSchema ==
  << <<"id", "number">>, <<"name", "string">>, <<"username", "string">>,
     <<"email", "string">>, <<"phone", "string">>, <<"website", "string">>,
     <<"address", "object">>, <<"company", "object">> >>
ValidateUserSchemaMutantNoCompany(user) ==
  IF IsA(user, "object")
       /\ \A i \in 1 .. Len(UserSchema) - 1 :
            PropertyIsA(user, UserSchema[i][1], UserSchema[i][2])
    THEN Returned(Omitted)
    ELSE AssertionError("user schema")
ValidateUserSchemaOutcome(user) ==
  IF IsA(user, "object")
       /\ \A i \in 1 .. Len(UserSchema) :
            PropertyIsA(user, UserSchema[i][1], UserSchema[i][2])
    THEN Returned(Omitted)
    ELSE AssertionError("user schema")

ValidateUserSchema(user) ==
  /\ ck_op = "none"
  /\ ck_op' = "validateUserSchema"
  /\ ck_in' = [user |-> user]
  /\ ck_out' = ValidateUserSchemaOutcome(user)
  /\ UNCHANGED <<rtVars, clVars, vrVars, hpVars>>

\* A TypeError: a property read on undefined.
TypeError(message) ==
  [kind |-> "raised",
   error |-> [origin |-> "TypeError", response |-> NoResponse, message |-> message]]

\* A response envelope is an object with, each possibly missing, status (a
\* number), headers (an object of strings), body (a JavaScript value),
\* duration and responseTime (numbers).

\* validateBasicResponse: the response exists and has status, body, headers
ValidateBasicResponse(response) ==
  /\ response # Omitted
  /\ "status" \in DOMAIN response
  /\ "body" \in DOMAIN response
  /\ "headers" \in DOMAIN response

\* expect(s).to.include(sub), s a string: sub occurs in s
Includes(s, sub) ==
  \E i \in 1 .. Len(s) - Len(sub) + 1 : SubSeq(s, i, i + Len(sub) - 1) = sub

\* validateJsonContentType, for a response that exists:
\*   expect(response.headers).to.have.property('content-type')
\*   expect(response.headers['content-type']).to.include('application/json')
JsonContentType(response) ==
  /\ "headers" \in DOMAIN response
  /\ "content-type" \in DOMAIN response.headers
  /\ Includes(response.headers["content-type"], "application/json")

ValidateJsonContentTypeOutcome(response) ==
  IF response = Omitted THEN TypeError("Cannot read properties of undefined")
  ELSE IF JsonContentType(response) THEN Returned(Omitted)
  ELSE AssertionError("content-type")

ValidateJsonContentType(response) ==
  /\ ck_op = "none"
  /\ ck_op' = "validateJsonContentType"
  /\ ck_in' = [response |-> response]
  /\ ck_out' = ValidateJsonContentTypeOutcome(response)
  /\ UNCHANGED <<rtVars, clVars, vrVars, hpVars>>

\* (response, expectedStatus = 200)
DefaultSuccessStatus == 200
ExpectedSuccessArg(expectedStatus) ==
  IF expectedStatus.def THEN expectedStatus.v ELSE DefaultSuccessStatus

\* if (expectedStatus < 400), the statuses below which a JSON body is required
FirstErrorStatus == 400

\* BaseApiClient.validateSuccessResponse(response, expectedStatus)
ApiValidateSuccessResponse(response, expectedStatus) ==
  IF ~ValidateBasicResponse(response) THEN AssertionError("basic response")
  ELSE IF response.status # expectedStatus THEN AssertionError("status")
  ELSE IF expectedStatus < FirstErrorStatus /\ ~JsonContentType(response)
    THEN AssertionError("content-type")
  ELSE Returned(response.body)

\* BasePageObject.validateAndGetBody(response, expectedStatus)
\* (faulty variant: without the status comparison)
PageValidateAndGetBodyMutantAnyStatus(response, expectedStatus) ==
  IF ~ValidateBasicResponse(response) THEN AssertionError("basic response")
  ELSE IF expectedStatus < FirstErrorStatus /\ ~JsonContentType(response)
    THEN AssertionError("content-type")
  ELSE Returned(response.body)
PageValidateAndGetBody(response, expectedStatus) ==
  IF ~ValidateBasicResponse(response) THEN AssertionError("basic response")
  ELSE IF response.status # expectedStatus THEN AssertionError("status")
  ELSE IF expectedStatus < FirstErrorStatus /\ ~JsonContentType(response)
    THEN AssertionError("content-type")
  ELSE Returned(response.body)

\* BasePageObject.validateSuccessResponse(response, expectedStatus):
\*   const body = this.validateAndGetBody(response, expectedStatus)
\*   this.validateResponseTime(response)
\*   return body
PageValidateSuccessResponse(response, expectedStatus) ==
  LET body == PageValidateAndGetBody(response, expectedStatus)
  IN IF body.kind = "raised" THEN body
     ELSE IF ~ResponseTimeAssertion(response, MaxTimeArg(JsUndefined))
       THEN AssertionError("response time")
     ELSE body

\* One response handed to validateSuccessResponse of a resource client, and to
\* validateAndGetBody and validateSuccessResponse of a page object.
ValidateSuccessResponse(response, expectedStatus) ==
  /\ ck_op = "none"
  /\ ck_op' = "validateSuccessResponse"
  /\ ck_in' = [response |-> response, expectedStatus |-> expectedStatus]
  /\ ck_out' =
       [kind |-> "each",
        api |-> ApiValidateSuccessResponse(response, ExpectedSuccessArg(expectedStatus)),
        getBody |-> PageValidateAndGetBody(response, ExpectedSuccessArg(expectedStatus)),
        page |-> PageValidateSuccessResponse(response, ExpectedSuccessArg(expectedStatus))]
  /\ UNCHANGED <<rtVars, clVars, vrVars, hpVars>>

\* v.name: the property, undefined when v has none of that name
GetProp(v, name) == IF HasProperty(v, name) THEN v.props[name] ELSE Omitted

\* expect(a).to.equal(b), a === b: numbers, strings, null and undefined are
\* equal when they are the same value; an object of the answer is never the
\* object the caller submitted.
StrictEquals(a, b) == a.tag \notin {"object", "array"} /\ a = b

\* The status create expects of the answer, and the fields each create
\* compares with what was submitted.
CreatedStatus == 201
CommentComparedFields == <<"name", "email", "body", "postId">>
UserComparedFields == <<"name", "username", "email">>

\* create(data), from the outcome of `await this.client.post(endpoint, data)`:
\*   const entity = this.validateSuccessResponse(response, 201)
\*   expect(entity).to.have.property('id').that.is.a('number')
\*   expect(entity.f).to.equal(data.f), for each compared field f
\*   return entity
\* (faulty variant: the comparisons left out)
CreateOutcomeMutantNoCompare(outcome, data, compared) ==
  IF outcome.kind = "raised" THEN outcome
  ELSE LET valid == ApiValidateSuccessResponse(outcome.value, CreatedStatus)
       IN IF valid.kind = "raised" THEN valid
          ELSE IF ~PropertyIsA(valid.value, "id", "number")
            THEN AssertionError("id")
          ELSE valid
CreateOutcome(outcome, data, compared) ==
  IF outcome.kind = "raised" THEN outcome
  ELSE LET valid == ApiValidateSuccessResponse(outcome.value, CreatedStatus)
       IN IF valid.kind = "raised" THEN valid
          ELSE IF ~PropertyIsA(valid.value, "id", "number")
            THEN AssertionError("id")
          ELSE IF \E i \in 1 .. Len(compared) :
                    ~StrictEquals(GetProp(valid.value, compared[i]),
                                  GetProp(data, compared[i]))
            THEN AssertionError("echoed field")
          ELSE valid

\* CommentsApiClient.create(commentData)
\* create(data) of the comments client up to its await, and after it
CommentsCreate(data) ==
  /\ Suspend("comments.create", [data |-> data])
  /\ ClientPost(JsString("/comments"), data)
CommentsCreateContinue ==
  /\ Resumable({"comments.create"})
  /\ Resume(CreateOutcome(Awaited, ck_in.data, CommentComparedFields))

\* UsersApiClient.create(userData)
\* create(data) of the users client up to its await, and after it
UsersCreate(data) ==
  /\ Suspend("users.create", [data |-> data])
  /\ ClientPost(JsString("/users"), data)
UsersCreateContinue ==
  /\ Resumable({"users.create"})
  /\ Resume(CreateOutcome(Awaited, ck_in.data, UserComparedFields))

\* UsersApiClient.getAll(), from the outcome of `await this.client.get(endpoint)`:
\*   const users = this.validateSuccessResponse(response)
\*   expect(users).to.be.an('array')
\*   expect(users).to.have.length.above(0)
\*   users.forEach(user => this.schemaValidations.validateUserSchema(user))
\*   return users
\* (faulty variant: only the first user is validated)
GetAllOutcomeMutantFirstOnly(outcome) ==
  IF outcome.kind = "raised" THEN outcome
  ELSE LET valid == ApiValidateSuccessResponse(outcome.value, DefaultSuccessStatus)
       IN IF valid.kind = "raised" THEN valid
          ELSE IF ~IsA(valid.value, "array") THEN AssertionError("array")
          ELSE IF ~(Len(valid.value.items) > 0) THEN AssertionError("length")
          ELSE IF ValidateUserSchemaOutcome(valid.value.items[1]).kind = "raised"
            THEN AssertionError("user schema")
          ELSE valid
GetAllOutcome(outcome) ==
  IF outcome.kind = "raised" THEN outcome
  ELSE LET valid == ApiValidateSuccessResponse(outcome.value,
                                               ExpectedSuccessArg(JsUndefined))
       IN IF valid.kind = "raised" THEN valid
          ELSE IF ~IsA(valid.value, "array") THEN AssertionError("array")
          ELSE IF ~(Len(valid.value.items) > 0) THEN AssertionError("length")
          ELSE IF \E i \in 1 .. Len(valid.value.items) :
                    ValidateUserSchemaOutcome(valid.value.items[i]).kind = "raised"
            THEN AssertionError("user schema")
          ELSE valid

\* getAll() up to its await, and after it
GetAll ==
  /\ Suspend("users.getAll", EmptyObj)
  /\ ClientGet(JsString("/users"))
GetAllContinue ==
  /\ Resumable({"users.getAll"})
  /\ Resume(GetAllOutcome(Awaited))

\* const { hasNextPage = false, hasPreviousPage = false } = options
OptionFlag(options, name) ==
  IF name \in DOMAIN options THEN options[name] ELSE FALSE

\* validatePaginationResponse(response, options = {}), for a response that
\* exists: the five typed properties of the body, then the two relations
\* (faulty variant: hasNextPage taken as asserted whatever the options)
PaginationHoldsMutantAlwaysNext(response, options) ==
  LET body == IF "body" \in DOMAIN response THEN response.body ELSE Omitted
  IN /\ PropertyIsA(body, "data", "array")
     /\ PropertyIsA(body, "page", "number")
     /\ PropertyIsA(body, "per_page", "number")
     /\ PropertyIsA(body, "total", "number")
     /\ PropertyIsA(body, "total_pages", "number")
     /\ body.props["page"].v < body.props["total_pages"].v
     /\ OptionFlag(options, "hasPreviousPage") => body.props["page"].v > 1
PaginationHolds(response, options) ==
  LET body == IF "body" \in DOMAIN response THEN response.body ELSE Omitted
  IN /\ PropertyIsA(body, "data", "array")
     /\ PropertyIsA(body, "page", "number")
     /\ PropertyIsA(body, "per_page", "number")
     /\ PropertyIsA(body, "total", "number")
     /\ PropertyIsA(body, "total_pages", "number")
     /\ OptionFlag(options, "hasNextPage") =>
          body.props["page"].v < body.props["total_pages"].v
     /\ OptionFlag(options, "hasPreviousPage") => body.props["page"].v > 1

ValidatePaginationResponseOutcome(response, options) ==
  IF response = Omitted THEN TypeError("Cannot read properties of undefined")
  ELSE IF PaginationHolds(response, DefaultArg(options, EmptyObj))
    THEN Returned(Omitted)
  ELSE AssertionError("pagination")

ValidatePaginationResponse(response, options) ==
  /\ ck_op = "none"
  /\ ck_op' = "validatePaginationResponse"
  /\ ck_in' = [response |-> response, options |-> options]
  /\ ck_out' = ValidatePaginationResponseOutcome(response, options)
  /\ UNCHANGED <<rtVars, clVars, vrVars, hpVars>>

(***************************************************************************)
(* Bounds of the client and validator specifications.                      *)
(***************************************************************************)
MaxReqs == 1      \* SpecClient: verb calls per behaviour
MaxTime == 2      \* SpecClient: milliseconds that pass
MaxOps == 3       \* SpecHeaders: setter and verb calls per behaviour
MaxFanOut == 2    \* SpecConcurrent: getById calls joined by Promise.all
MaxFanTime == 1   \* SpecConcurrent: milliseconds that pass
MaxDuration == 3  \* SpecValidate: durations, response times and budgets

\* The inputs the specifications draw from.
Endpoint == JsString("/users")
Payload == ("name" :> "x")
Tokens == {"t1", "t2"}
SetterChoices == {"A" :> "1", "Authorization" :> "Custom"}
OverrideChoices ==
  {EmptyObj, ("A" :> "2") @@ ("B" :> "3"), "Authorization" :> "Basic x"}
RejectResponses(i) ==
  {NoResponse} \cup {TransportResponse(i, s) : s \in ErrorStatuses}
ResponseObjects ==
  UNION { UNION { { EmptyObj, "duration" :> d, "responseTime" :> t,
                    ("duration" :> d) @@ ("responseTime" :> t) }
                  : t \in 0 .. MaxDuration } : d \in 0 .. MaxDuration }

(***************************************************************************)
(* Several HttpClient instances.  Header objects live in a heap and are    *)
(* held by reference, so that two instances holding the same object would  *)
(* see each other's writes to it.                                          *)
(***************************************************************************)
\* The reference of config.defaultHeaders, the object the module exports.
ConfigRef == 1

InitInstances ==
  /\ hp_heap = <<ConfigDefaultHeaders>>
  /\ hp_clients = <<>>
  /\ hp_hist = <<>>

\* new HttpClient(): this.defaultHeaders = config.defaultHeaders, the same
\* object for every instance.
NewHttpClient ==
  /\ hp_clients' = Append(hp_clients, [defaultHeaders |-> ConfigRef])
  /\ hp_hist' = Append(hp_hist, [op |-> "new", client |-> Len(hp_clients) + 1])
  /\ UNCHANGED hp_heap
  /\ UNCHANGED <<rtVars, clVars, vrVars, ckVars>>

\* Object.assign(this.defaultHeaders, headers)  (faulty variant: the object
\* the instance holds is written in place)
AssignDefaultsMutantInPlace(c, headers) ==
  /\ hp_heap' = [hp_heap EXCEPT ![hp_clients[c].defaultHeaders] = Spread(@, headers)]
  /\ UNCHANGED hp_clients
\* this.defaultHeaders = { ...this.defaultHeaders, ...headers }: a new object
\* is made and this.defaultHeaders is bound to it.
AssignDefaults(c, headers) ==
  /\ hp_heap' = Append(hp_heap, Spread(hp_heap[hp_clients[c].defaultHeaders], headers))
  /\ hp_clients' = [hp_clients EXCEPT ![c].defaultHeaders = Len(hp_heap) + 1]

\* client.setDefaultHeaders(headers) on instance c
SetDefaultHeadersOn(c, headers) ==
  /\ c \in 1 .. Len(hp_clients)
  /\ AssignDefaults(c, headers)
  /\ hp_hist' = Append(hp_hist, [op |-> "setDefaultHeaders", client |-> c,
                                 arg |-> headers])
  /\ UNCHANGED <<rtVars, clVars, vrVars, ckVars>>

\* client.setAuthToken(token) on instance c
SetAuthTokenOn(c, token) ==
  /\ c \in 1 .. Len(hp_clients)
  /\ AssignDefaults(c, "Authorization" :> Bearer(token))
  /\ hp_hist' = Append(hp_hist, [op |-> "setAuthToken", client |-> c, arg |-> token])
  /\ UNCHANGED <<rtVars, clVars, vrVars, ckVars>>

\* client.get(endpoint, headers) on instance c, up to its await: the headers
\* it hands to the transport.
GetOn(c, headers) ==
  /\ c \in 1 .. Len(hp_clients)
  /\ hp_hist' = Append(hp_hist,
       [op |-> "get", client |-> c, arg |-> headers,
        sent |-> Spread(hp_heap[hp_clients[c].defaultHeaders], headers)])
  /\ UNCHANGED <<hp_heap, hp_clients>>
  /\ UNCHANGED <<rtVars, clVars, vrVars, ckVars>>

Init == InitRetry /\ InitClient /\ InitValidate /\ InitChecks /\ InitInstances

\* One call of retry.
SpecRetry == Init /\ [][NextRetry]_vars

\* One client, its requests answered by the transport in every possible way.
NextClient ==
  \/ Len(reqs) < MaxReqs /\ Get(Endpoint, Omitted)
  \/ Len(reqs) < MaxReqs /\ Post(Endpoint, Payload, Omitted)
  \/ Len(reqs) < MaxReqs /\ Put(Endpoint, Payload, Omitted)
  \/ Len(reqs) < MaxReqs /\ Patch(Endpoint, Payload, Omitted)
  \/ Len(reqs) < MaxReqs /\ Delete(Endpoint, Omitted)
  \/ \E i \in 1 .. Len(reqs), s \in OkStatuses : TransportResolves(i, s)
  \/ \E i \in 1 .. Len(reqs) : \E r \in RejectResponses(i), t \in BOOLEAN :
       TransportRejects(i, r, t)
  \/ \E i \in 1 .. Len(reqs) : Continue(i)
  \/ now < MaxTime /\ Tick
SpecClient == Init /\ [][NextClient]_vars

\* One client whose default headers are changed between and during requests;
\* the caller awaits each verb call before it makes the next.
AllDone == \A i \in 1 .. Len(reqs) : reqs[i].phase = "done"
NextHeaders ==
  \/ Len(hist) < MaxOps /\ \E h \in SetterChoices : SetDefaultHeaders(h)
  \/ Len(hist) < MaxOps /\ \E t \in Tokens : SetAuthToken(t)
  \/ Len(hist) < MaxOps /\ AllDone /\ \E h \in OverrideChoices : Get(Endpoint, h)
  \/ Len(hist) < MaxOps /\ AllDone /\ \E h \in OverrideChoices : Post(Endpoint, Omitted, h)
  \/ Len(hist) < MaxOps /\ AllDone /\ \E h \in OverrideChoices : Put(Endpoint, Omitted, h)
  \/ Len(hist) < MaxOps /\ AllDone /\ \E h \in OverrideChoices : Patch(Endpoint, Omitted, h)
  \/ Len(hist) < MaxOps /\ AllDone /\ \E h \in OverrideChoices : Delete(Endpoint, h)
  \/ \E i \in 1 .. Len(reqs), s \in OkStatuses : TransportResolves(i, s)
  \/ \E i \in 1 .. Len(reqs) : Continue(i)
SpecHeaders == Init /\ [][NextHeaders]_vars

\* The response-time check applied to one response object.
NextValidate ==
  \E r \in ResponseObjects, m \in {JsUndefined} \cup {JsNum(n) : n \in 0 .. MaxDuration} :
    ValidateResponseTime(r, m)
SpecValidate == Init /\ [][NextValidate]_vars

\* One client, its setters and its verb operations, the requests answered
\* with a response, an HTTP error or a timeout.
MaxFrameOps == 3  \* SpecFrame: setter and verb calls per behaviour
FrameOverride == ("A" :> "2") @@ ("B" :> "3")
FrameOverrides == {EmptyObj, FrameOverride}
NextFrame ==
  \/ Len(hist) < MaxFrameOps /\ \E h \in SetterChoices : SetDefaultHeaders(h)
  \/ Len(hist) < MaxFrameOps /\ SetAuthToken("t1")
  \/ Len(hist) < MaxFrameOps /\ AllDone /\ \E h \in FrameOverrides : Get(Endpoint, h)
  \/ Len(hist) < MaxFrameOps /\ AllDone /\ \E h \in FrameOverrides :
       Post(Endpoint, Payload, h)
  \/ Len(hist) < MaxFrameOps /\ AllDone /\ Put(Endpoint, Payload, FrameOverride)
  \/ Len(hist) < MaxFrameOps /\ AllDone /\ Patch(Endpoint, Payload, FrameOverride)
  \/ Len(hist) < MaxFrameOps /\ AllDone /\ Delete(Endpoint, FrameOverride)
  \/ \E i \in 1 .. Len(reqs), s \in OkStatuses : TransportResolves(i, s)
  \/ \E i \in 1 .. Len(reqs) : TransportRejects(i, TransportResponse(i, 404), FALSE)
  \/ \E i \in 1 .. Len(reqs) : TransportRejects(i, NoResponse, TRUE)
  \/ \E i \in 1 .. Len(reqs) : Continue(i)
SpecFrame == Init /\ [][NextFrame]_vars

\* Verb calls with arguments left out, the caller awaiting each call before
\* it makes the next.
\* Instances are made, configured and used in any order.
MaxClients == 2
MaxInstOps == 5
NextInstances ==
  \/ Len(hp_hist) < MaxInstOps /\ Len(hp_clients) < MaxClients /\ NewHttpClient
  \/ Len(hp_hist) < MaxInstOps /\ \E c \in 1 .. Len(hp_clients), h \in SetterChoices :
                                    SetDefaultHeadersOn(c, h)
  \/ Len(hp_hist) < MaxInstOps /\ \E c \in 1 .. Len(hp_clients) : SetAuthTokenOn(c, "t1")
  \/ Len(hp_hist) < MaxInstOps /\ \E c \in 1 .. Len(hp_clients), h \in FrameOverrides :
                                    GetOn(c, h)
SpecInstances == Init /\ [][NextInstances]_vars

MaxArgCalls == 2  \* SpecArgs: verb calls per behaviour
NextArgs ==
  \/ Len(reqs) < MaxArgCalls /\ AllDone /\ \E e \in {Endpoint, Omitted} :
       Get(e, Omitted)
  \/ Len(reqs) < MaxArgCalls /\ AllDone /\ \E e \in {Endpoint, Omitted} :
       \E d \in {Omitted, EmptyObj, Payload} : Post(e, d, Omitted)
  \/ Len(reqs) < MaxArgCalls /\ AllDone /\ \E e \in {Endpoint, Omitted} :
       \E d \in {Omitted, EmptyObj, Payload} : Put(e, d, Omitted)
  \/ Len(reqs) < MaxArgCalls /\ AllDone /\ \E e \in {Endpoint, Omitted} :
       \E d \in {Omitted, EmptyObj, Payload} : Patch(e, d, Omitted)
  \/ Len(reqs) < MaxArgCalls /\ AllDone /\ \E e \in {Endpoint, Omitted} :
       Delete(e, Omitted)
  \/ \E i \in 1 .. Len(reqs), s \in OkStatuses : TransportResolves(i, s)
  \/ \E i \in 1 .. Len(reqs) : TransportRejects(i, TransportResponse(i, 404), FALSE)
  \/ \E i \in 1 .. Len(reqs) : Continue(i)
SpecArgs == Init /\ [][NextArgs]_vars

(***************************************************************************)
(* The inputs of the assertion helpers and the resource-client operations. *)
(***************************************************************************)
MaxTook == 1   \* SpecChecks: milliseconds a request takes
MaxUsers == 2  \* SpecChecks: elements of the array GET /users answers with
MaxPage == 2   \* SpecChecks: page and total_pages of a paginated body

\* An answer of the transport to the one request an operation makes.
Envelope(status, headers, body) ==
  [tag |-> "response", req |-> 1, status |-> status, headers |-> headers,
   body |-> body]
Resolved(response) == [kind |-> "response", response |-> response]
Rejected(response, timeout) ==
  [kind |-> "error", error |-> TransportError(1, response, timeout)]

\* requestFn of expectClientError: a verb call answered in any way.
RejectStatuses == {302, 400, 404, 499, 500}
RequestAnswers ==
  {Resolved(TransportResponse(1, s)) : s \in OkStatuses}
  \cup {Rejected(TransportResponse(1, s), FALSE) : s \in RejectStatuses}
  \cup {Rejected(NoResponse, t) : t \in BOOLEAN}
ExpectedStatuses == {JsUndefined} \cup {JsNum(s) : s \in RejectStatuses \cup OkStatuses}

\* Candidate users: each of the eight fields missing, of its type, or of
\* another type; with or without a field the schema does not name.
RightValue(type) ==
  CASE type = "number" -> JsNumber(1)
    [] type = "string" -> JsString("s")
    [] type = "object" -> JsObject("k" :> JsString("s"))
WrongValues(type) ==
  CASE type = "number" -> {JsString("1")}
    [] type = "string" -> {JsNumber(7)}
    [] type = "object" -> {JsArray(<<>>), JsNull}
UserFromChoice(choice, extra) ==
  JsObject([f \in {UserSchema[i][1] : i \in {j \in 1 .. Len(UserSchema) :
                                               choice[j] # Omitted}}
                \cup extra
              |-> IF f \in extra THEN JsString("more")
                  ELSE choice[CHOOSE i \in 1 .. Len(UserSchema) : UserSchema[i][1] = f]])
UserFieldChoices(i) ==
  {Omitted, RightValue(UserSchema[i][2])} \cup WrongValues(UserSchema[i][2])
\* All fields right but, at most, two of them.
RightChoice == [i \in 1 .. Len(UserSchema) |-> RightValue(UserSchema[i][2])]
OneChanged(c) ==
  UNION {{[c EXCEPT ![i] = a] : a \in UserFieldChoices(i)} : i \in 1 .. Len(UserSchema)}
UserChoices == UNION {OneChanged(c) : c \in OneChanged(RightChoice)}
UserCandidates ==
  {UserFromChoice(c, e) : c \in UserChoices, e \in {{}, {"extra"}}}
  \cup {JsNull, Omitted, JsArray(<<>>), JsString("user")}

\* The headers of an answer.
JsonHeaders == "content-type" :> "application/json; charset=utf-8"
HeaderChoices ==
  {EmptyObj, JsonHeaders, "content-type" :> "application/json",
   "content-type" :> "text/html", "Content-Type" :> "application/json",
   "CONTENT-TYPE" :> "application/json", "Content-Type" :> "text/html",
   "accept" :> "application/json",
   ("content-type" :> "text/html") @@ ("accept" :> "application/json")}

\* Fixtures (generateRandomComment, generateRandomUser) and what the service
\* may answer a create with: the fixture echoed with an id, the id a number,
\* a string or missing, one echoed field changed, or no body.
CommentFixture ==
  JsObject(("name" :> JsString("x")) @@ ("email" :> JsString("a@b.com"))
           @@ ("body" :> JsString("hello world")) @@ ("postId" :> JsNumber(1)))
UserFixture ==
  JsObject(("name" :> JsString("Ann Lee")) @@ ("username" :> JsString("ann"))
           @@ ("email" :> JsString("ann@example.com"))
           @@ ("phone" :> JsString("100-200-3000"))
           @@ ("website" :> JsString("ann.com"))
           @@ ("address" :> JsObject("city" :> JsString("Kyiv")))
           @@ ("company" :> JsObject("name" :> JsString("Ann Inc"))))
NewId == JsNumber(501)
Echo(data, id) == JsObject(SetProp(data.props, "id", id))
Changed(v) == IF v.tag = "number" THEN JsNumber(v.v + 1) ELSE JsString("changed")
EchoBodies(data) ==
  {Echo(data, NewId), Echo(data, JsString("501")), data, Omitted}
  \cup {JsObject(SetProp(Echo(data, NewId).props, f, Changed(data.props[f])))
          : f \in DOMAIN data.props}
CreateAnswers(data) ==
  {Resolved(Envelope(s, h, b)) :
     s \in {200, 201}, h \in {JsonHeaders, EmptyObj}, b \in EchoBodies(data)}
  \cup {Rejected(Envelope(500, JsonHeaders, JsObject(EmptyObj)), FALSE),
        Rejected(NoResponse, FALSE)}

\* What the service may answer GET /users with.
UserSample(id) ==
  JsObject([f \in {UserSchema[i][1] : i \in 1 .. Len(UserSchema)} |->
              IF f = "id" THEN JsNumber(id)
              ELSE RightValue(UserSchema[CHOOSE i \in 1 .. Len(UserSchema) :
                                           UserSchema[i][1] = f][2])])
UserSamples ==
  {UserSample(1), UserSample(2),
   JsObject([f \in DOMAIN UserSample(3).props \ {"email"} |-> UserSample(3).props[f]]),
   JsObject(SetProp(UserSample(4).props, "id", JsString("4")))}
UserLists == UNION {[1 .. n -> UserSamples] : n \in 0 .. MaxUsers}
GetAllAnswers ==
  {Resolved(Envelope(s, h, b)) :
     s \in {200, 201}, h \in {JsonHeaders, EmptyObj},
     b \in {JsArray(l) : l \in UserLists} \cup {JsObject(EmptyObj), Omitted}}
  \cup {Rejected(Envelope(500, JsonHeaders, JsObject(EmptyObj)), FALSE),
        Rejected(NoResponse, TRUE)}

\* A value with a property that may be missing.
Absent == [has |-> FALSE]
Present(v) == [has |-> TRUE, v |-> v]
WithOptional(obj, name, choice) ==
  IF choice.has THEN SetProp(obj, name, choice.v) ELSE obj

\* Responses handed to validateSuccessResponse: each of status, headers and
\* body there or not, with or without a duration and a response time around
\* the default budget.
TimeChoices ==
  {Absent, Present(0), Present(1), Present(DefaultMaxTime),
   Present(DefaultMaxTime + 1)}
SuccessResponses ==
  {Omitted} \cup
  {WithOptional(WithOptional(WithOptional(WithOptional(WithOptional(
       [tag |-> "response"], "status", st), "headers", h), "body", b),
       "duration", d), "responseTime", t) :
     st \in {Absent, Present(200), Present(201), Present(404)},
     h \in {Absent, Present(EmptyObj), Present(JsonHeaders),
            Present("content-type" :> "text/html")},
     b \in {Absent, Present(JsObject(EmptyObj))},
     d \in TimeChoices,
     t \in {Absent, Present(1), Present(DefaultMaxTime + 1)}}
SuccessStatuses == {JsUndefined, JsNum(200), JsNum(201), JsNum(404)}

\* Responses handed to validateJsonContentType.
HeaderResponses ==
  {Omitted, [tag |-> "response", status |-> 200, body |-> JsObject(EmptyObj)]}
  \cup {Envelope(200, h, JsObject(EmptyObj)) : h \in HeaderChoices}

\* Responses handed to validatePaginationResponse, and its options.
PageChoices ==
  {Absent, Present(JsString("1"))} \cup {Present(JsNumber(n)) : n \in 0 .. MaxPage}
CountChoices == {Absent, Present(JsString("6")), Present(JsNumber(6))}
PagedBodies ==
  {JsObject(WithOptional(WithOptional(WithOptional(WithOptional(WithOptional(
       EmptyObj, "data", da), "page", pg), "per_page", pp), "total", to),
       "total_pages", tp)) :
     da \in {Absent, Present(JsArray(<<>>)), Present(JsObject(EmptyObj))},
     pg \in PageChoices, pp \in CountChoices, to \in CountChoices,
     tp \in PageChoices}
PagedResponses ==
  {Omitted, [tag |-> "response", status |-> 200, headers |-> JsonHeaders]}
  \cup {Envelope(200, JsonHeaders, b) : b \in PagedBodies \cup {Omitted, JsNull}}
FlagChoices == {Absent, Present(FALSE), Present(TRUE)}
PageOptions ==
  {Omitted} \cup
  {WithOptional(WithOptional(EmptyObj, "hasNextPage", n), "hasPreviousPage", pr) :
     n \in FlagChoices, pr \in FlagChoices}

(***************************************************************************)
(* isValidEmail and validateEmail.  A text is a string; the pattern is a   *)
(* sequence of items matched from the first character to the last.         *)
(***************************************************************************)
JsBoolean(b) == [tag |-> "boolean", v |-> b]
CharAt(s, i) == SubSeq(s, i, i)

\* The text a pattern is matched against is a sequence of UTF-16 code units.
\* The code unit of a character: the ASCII characters 32..95 and 97..126 in
\* this order (the character 96 cannot be written here), and the escapes.
Ascii32 ==
  " !\"#$%&'()*+,-./0123456789:;<=>?@ABCDEFGHIJKLMNOPQRSTUVWXYZ[\\]^_"
Ascii97 == "abcdefghijklmnopqrstuvwxyz{|}~"
CodeUnit(c) ==
  CASE c = "\t" -> 9
    [] c = "\n" -> 10
    [] c = "\f" -> 12
    [] c = "\r" -> 13
    [] \E i \in 1 .. Len(Ascii97) : CharAt(Ascii97, i) = c ->
         96 + CHOOSE i \in 1 .. Len(Ascii97) : CharAt(Ascii97, i) = c
    [] OTHER -> 31 + CHOOSE i \in 1 .. Len(Ascii32) : CharAt(Ascii32, i) = c
CodeUnits(s) == [i \in 1 .. Len(s) |-> CodeUnit(CharAt(s, i))]
\* A string value given by its code units, so that it can hold the
\* characters that cannot be written between quotes here.
JsUnits(units) == [tag |-> "string", units |-> units]

\* String(v), the conversion RegExp.prototype.test applies to its argument
RECURSIVE JoinUnits(_)
RECURSIVE StringUnits(_)
JoinUnits(items) ==
  IF items = <<>> THEN <<>>
  ELSE (IF items[1].tag \in {"undefined", "null"} THEN <<>>
        ELSE StringUnits(items[1]))
       \o (IF Len(items) = 1 THEN <<>>
           ELSE <<CodeUnit(",")>> \o JoinUnits(Tail(items)))
StringUnits(v) ==
  CASE v.tag = "string" -> IF "units" \in DOMAIN v THEN v.units ELSE CodeUnits(v.s)
    [] v.tag = "undefined" -> CodeUnits("undefined")
    [] v.tag = "null" -> CodeUnits("null")
    [] v.tag = "number" -> CodeUnits(ToString(v.v))
    [] v.tag = "boolean" -> CodeUnits(IF v.v THEN "true" ELSE "false")
    [] v.tag = "array" -> JoinUnits(v.items)
    [] v.tag = "object" -> CodeUnits("[object Object]")

\* \s: the white space and the line terminators of ECMAScript: tab, line
\* feed, vertical tab, form feed, carriage return, space, U+00A0, U+1680,
\* U+2000..U+200A, U+2028, U+2029, U+202F, U+205F, U+3000 and U+FEFF.
WhiteSpace ==
  {9, 10, 11, 12, 13, 32, 160, 5760} \cup (8192 .. 8202)
    \cup {8232, 8233, 8239, 8287, 12288, 65279}
\* One literal character; [^...]+, one or more characters outside a set.
Lit(c) == [kind |-> "lit", c |-> CodeUnit(c)]
PlusNoneOf(cs) == [kind |-> "plus", none |-> cs]

\* /^[^\s@]+@[^\s@]+$/ (faulty variant: no '.' required after the '@')
EmailRegexMutantNoDot ==
  <<PlusNoneOf(WhiteSpace \cup {CodeUnit("@")}), Lit("@"),
    PlusNoneOf(WhiteSpace \cup {CodeUnit("@")})>>
\* const emailRegex = /^[^\s@]+@[^\s@]+\.[^\s@]+$/
EmailRegex ==
  <<PlusNoneOf(WhiteSpace \cup {CodeUnit("@")}), Lit("@"),
    PlusNoneOf(WhiteSpace \cup {CodeUnit("@")}), Lit("."),
    PlusNoneOf(WhiteSpace \cup {CodeUnit("@")})>>

\* Whether the items k.. of the pattern match the text from position i to its
\* end: a literal takes one character, a [^...]+ takes any number n >= 1 of
\* characters outside its set, every n being tried.
RECURSIVE MatchFrom(_, _, _, _)
MatchFrom(regex, k, s, i) ==
  IF k > Len(regex) THEN i = Len(s) + 1
  ELSE IF regex[k].kind = "lit"
    THEN /\ i <= Len(s)
         /\ s[i] = regex[k].c
         /\ MatchFrom(regex, k + 1, s, i + 1)
  ELSE \E n \in 1 .. (Len(s) - i + 1) :
         /\ \A m \in i .. (i + n - 1) : s[m] \notin regex[k].none
         /\ MatchFrom(regex, k + 1, s, i + n)

\* emailRegex.test(email), the pattern being anchored at both ends; the
\* argument is converted to a string first
RegexTest(regex, v) == MatchFrom(regex, 1, StringUnits(v), 1)

\* isValidEmail(email) { ...; return emailRegex.test(email) }
IsValidEmailOutcome(email) == Returned(JsBoolean(RegexTest(EmailRegex, email)))

IsValidEmail(email) ==
  /\ ck_op = "none"
  /\ ck_op' = "isValidEmail"
  /\ ck_in' = [email |-> email]
  /\ ck_out' = IsValidEmailOutcome(email)
  /\ UNCHANGED <<rtVars, clVars, vrVars, hpVars>>

\* validateEmail(comment) {
\*   expect(isValidEmail(comment.email)).to.be.true
\*   return true }
\* comment.email of undefined or null throws a TypeError; of a value that
\* has no such property it is undefined.
ValidateEmailOutcome(comment) ==
  IF comment.tag = "undefined"
    THEN TypeError("Cannot read properties of undefined")
  ELSE IF comment.tag = "null"
    THEN TypeError("Cannot read properties of null")
  ELSE IF IsValidEmailOutcome(GetProp(comment, "email")).value.v
    THEN Returned(JsBoolean(TRUE))
  ELSE AssertionError("true")

ValidateEmail(comment) ==
  /\ ck_op = "none"
  /\ ck_op' = "comments.validateEmail"
  /\ ck_in' = [comment |-> comment]
  /\ ck_out' = ValidateEmailOutcome(comment)
  /\ UNCHANGED <<rtVars, clVars, vrVars, hpVars>>

\* The texts tried: every text of at most MaxEmailLen characters over a
\* letter, '@', '.' and a space; some longer ones; texts with each kind of
\* white space in each part; and values that are not strings.
MaxEmailLen == 6
EmailChars == {CodeUnit("a"), CodeUnit("@"), CodeUnit("."), CodeUnit(" ")}
EmailExamples ==
  {"a@b.com", "invalid-email", "", "user@example.co.uk", "a\t@b.com",
   "a@b.c\n", "a@b@c.com", "undefined", "a\rb@c.de", "a@b\r.de", "a\fb@c.de",
   "a@b.c\r"}
OtherSpaces == {11, 160, 5760, 8192, 8202, 8232, 8233, 8239, 8287, 12288, 65279}
SpacedExamples ==
  UNION {{CodeUnits("a") \o <<w>> \o CodeUnits("b@c.de"),
          CodeUnits("a@b") \o <<w>> \o CodeUnits(".de"),
          CodeUnits("a@b.c") \o <<w>>,
          <<w>> \o CodeUnits("@b.c")} : w \in OtherSpaces}
NotStrings ==
  {Omitted, JsNull, JsNumber(1), JsObject(EmptyObj),
   JsArray(<<JsString("a@b.c")>>), JsArray(<<JsString("a@b"), JsString(".c")>>),
   JsArray(<<JsNull>>)}
EmailTexts ==
  {JsUnits(q) : q \in UNION {[1 .. n -> EmailChars] : n \in 0 .. MaxEmailLen}}
    \cup {JsUnits(CodeUnits(s)) : s \in EmailExamples}
    \cup {JsUnits(q) : q \in SpacedExamples}
    \cup NotStrings
EmailComments ==
  {JsObject("email" :> e) :
     e \in {JsString(s) : s \in EmailExamples}
           \cup {JsUnits(q) : q \in SpacedExamples} \cup NotStrings}
    \cup {JsObject(EmptyObj), Omitted, JsNull, JsString("a@b.c"), JsArray(<<>>)}

\* UsersPageObject.getAllUsers: getAll with the page object's
\* validateSuccessResponse, which also checks the response time.
GetAllUsersOutcome(outcome) ==
  IF outcome.kind = "raised" THEN outcome
  ELSE LET valid == PageValidateSuccessResponse(outcome.value,
                                                ExpectedSuccessArg(JsUndefined))
       IN IF valid.kind = "raised" THEN valid
          ELSE IF ~IsA(valid.value, "array") THEN AssertionError("array")
          ELSE IF ~(Len(valid.value.items) > 0) THEN AssertionError("length")
          ELSE IF \E i \in 1 .. Len(valid.value.items) :
                    ValidateUserSchemaOutcome(valid.value.items[i]).kind = "raised"
            THEN AssertionError("user schema")
          ELSE valid

\* getAllUsers() up to its await, and after it
GetAllUsers ==
  /\ Suspend("usersPage.getAllUsers", EmptyObj)
  /\ ClientGet(JsString("/users"))
GetAllUsersContinue ==
  /\ Resumable({"usersPage.getAllUsers"})
  /\ Resume(GetAllUsersOutcome(Awaited))

(***************************************************************************)
(* getByPostId and getStatistics of the comments client, and their page    *)
(* object counterparts.                                                    *)
(***************************************************************************)
CommentSchema ==
  << <<"id", "number">>, <<"name", "string">>, <<"email", "string">>,
     <<"body", "string">>, <<"postId", "number">> >>
\* validateCommentSchema(comment)
ValidateCommentSchemaOutcome(comment) ==
  IF IsA(comment, "object")
       /\ \A i \in 1 .. Len(CommentSchema) :
            PropertyIsA(comment, CommentSchema[i][1], CommentSchema[i][2])
    THEN Returned(Omitted)
    ELSE AssertionError("comment schema")

\*   expect(comments).to.be.an('array')
\*   comments.forEach(comment => {
\*     this.schemaValidations.validateCommentSchema(comment)
\*     expect(comment.postId).to.equal(postId) })
\*   return comments
CommentsOfPost(valid, postId) ==
  IF valid.kind = "raised" THEN valid
  ELSE IF ~IsA(valid.value, "array") THEN AssertionError("array")
  ELSE IF \E i \in 1 .. Len(valid.value.items) :
            \/ ValidateCommentSchemaOutcome(valid.value.items[i]).kind = "raised"
            \/ ~StrictEquals(GetProp(valid.value.items[i], "postId"), postId)
    THEN AssertionError("comment")
  ELSE valid

GetByPostIdOutcome(outcome, postId) ==
  IF outcome.kind = "raised" THEN outcome
  ELSE CommentsOfPost(ApiValidateSuccessResponse(outcome.value,
                                                 ExpectedSuccessArg(JsUndefined)),
                      postId)
GetCommentsByPostIdOutcome(outcome, postId) ==
  IF outcome.kind = "raised" THEN outcome
  ELSE CommentsOfPost(PageValidateSuccessResponse(outcome.value,
                                                  ExpectedSuccessArg(JsUndefined)),
                      postId)

\* c.body.length
BodyLength(c) == Len(c.props["body"].s)
\* a / b on numbers, kept as the exact quotient; 0 / 0 is NaN
JsQuotient(a, b) ==
  IF b = 0 THEN [tag |-> "NaN"] ELSE [tag |-> "number", num |-> a, den |-> b]

\* comments.reduce((sum, c) => sum + c.body.length, 0)
RECURSIVE ReduceSum(_, _, _)
ReduceSum(sum, comments, i) ==
  IF i > Len(comments) THEN sum
  ELSE ReduceSum(sum + BodyLength(comments[i]), comments, i + 1)

\* current.body.length >= longest.body.length  (faulty variant: ties replace)
LongerMutantOrEqual(current, longest) == BodyLength(current) >= BodyLength(longest)
\* current.body.length > longest.body.length
Longer(current, longest) == BodyLength(current) > BodyLength(longest)
\* current.body.length < shortest.body.length
Shorter(current, shortest) == BodyLength(current) < BodyLength(shortest)

\* comments.reduce((longest, current) => ... ? current : longest, comments[0])
RECURSIVE ReduceLongest(_, _, _)
ReduceLongest(longest, comments, i) ==
  IF i > Len(comments) THEN longest
  ELSE ReduceLongest(IF Longer(comments[i], longest) THEN comments[i] ELSE longest,
                     comments, i + 1)
RECURSIVE ReduceShortest(_, _, _)
ReduceShortest(shortest, comments, i) ==
  IF i > Len(comments) THEN shortest
  ELSE ReduceShortest(IF Shorter(comments[i], shortest) THEN comments[i] ELSE shortest,
                      comments, i + 1)
\* comments[0], undefined on an empty array
FirstOf(comments) == IF comments = <<>> THEN Omitted ELSE comments[1]

\* The object both operations build from the fetched comments.
Statistics(comments) ==
  JsObject(
    ("total" :> JsNumber(Len(comments)))
    @@ ("uniqueEmails" :>
          JsNumber(Cardinality({comments[i].props["email"] : i \in 1 .. Len(comments)})))
    @@ ("averageBodyLength" :> JsQuotient(ReduceSum(0, comments, 1), Len(comments)))
    @@ ("longestComment" :> ReduceLongest(FirstOf(comments), comments, 1))
    @@ ("shortestComment" :> ReduceShortest(FirstOf(comments), comments, 1)))

\* `const comments = await ...; return { ... }`, given what the awaited
\* promise settled with: a rejection is passed on.
StatisticsAfter(comments) ==
  IF comments.kind = "raised" THEN comments
  ELSE Returned(Statistics(comments.value.items))

\* getStatistics(postId) runs getByPostId(postId) up to its await.
GetStatistics(postId) ==
  /\ Suspend("comments.getStatistics", [postId |-> postId])
  /\ ClientGet(JsString("/comments?postId=" \o ToString(postId.v)))
\* The rest of getByPostId: its promise settles, getStatistics still waits.
GetByPostIdContinue ==
  /\ Resumable({"comments.getStatistics"})
  /\ Resume(InnerSettled(GetByPostIdOutcome(Awaited, ck_in.postId)))
\* The rest of getStatistics, after `await this.getByPostId(postId)`.
GetStatisticsContinue ==
  /\ OuterResumable({"comments.getStatistics"})
  /\ Resume(StatisticsAfter(ck_out.inner))
\* The same three steps of the page object.
GetCommentsStatistics(postId) ==
  /\ Suspend("commentsPage.getCommentsStatistics", [postId |-> postId])
  /\ ClientGet(JsString("/comments?postId=" \o ToString(postId.v)))
GetCommentsByPostIdContinue ==
  /\ Resumable({"commentsPage.getCommentsStatistics"})
  /\ Resume(InnerSettled(GetCommentsByPostIdOutcome(Awaited, ck_in.postId)))
GetCommentsStatisticsContinue ==
  /\ OuterResumable({"commentsPage.getCommentsStatistics"})
  /\ Resume(StatisticsAfter(ck_out.inner))

\* The comment lists tried: at most MaxComments comments of post 1, among
\* them bodies of equal length, an empty body, shared emails, a comment of
\* another post and one without a body.
MaxComments == 3
Comment(id, email, body, postId) ==
  JsObject(("id" :> JsNumber(id)) @@ ("name" :> JsString("n"))
           @@ ("email" :> JsString(email)) @@ ("body" :> JsString(body))
           @@ ("postId" :> JsNumber(postId)))
CommentSamples ==
  {Comment(1, "a@x.io", "aa", 1), Comment(2, "a@x.io", "bb", 1),
   Comment(3, "b@x.io", "cccc", 1), Comment(4, "b@x.io", "", 1),
   Comment(5, "c@x.io", "dddd", 1), Comment(6, "c@x.io", "ee", 2),
   JsObject([f \in {"id", "name", "email", "postId"} |->
               Comment(7, "d@x.io", "ff", 1).props[f]])}
CommentLists == UNION {[1 .. n -> CommentSamples] : n \in 0 .. MaxComments}
CommentListAnswers ==
  {Resolved(Envelope(200, JsonHeaders, JsArray(l))) : l \in CommentLists}
  \cup {Resolved(Envelope(200, JsonHeaders, JsObject(EmptyObj))),
        Resolved(Envelope(200, EmptyObj, JsArray(<<>>))),
        Rejected(Envelope(404, JsonHeaders, JsObject(EmptyObj)), FALSE),
        Rejected(NoResponse, TRUE)}

(***************************************************************************)
(* validateErrorResponse: the helper, and the page object method that      *)
(* calls it.                                                               *)
(***************************************************************************)
\* value.body, for a response or for any other value that is neither
\* undefined nor null
BodyOf(value) ==
  IF value.tag = "response"
    THEN IF "body" \in DOMAIN value THEN value.body ELSE Omitted
    ELSE GetProp(value, "body")

\* responseValidations.validateErrorResponse(response):
\*   expect(response.body).to.have.property('error').that.is.a('string')
\*   expect(response.body.error).to.not.be.empty
\* applied to whatever value it is given as response.
ValidateErrorResponseOutcome(response) ==
  IF response.tag \in {"undefined", "null"} THEN TypeError("body")
  ELSE IF ~PropertyIsA(BodyOf(response), "error", "string")
    THEN AssertionError("error")
  ELSE IF BodyOf(response).props["error"].s = "" THEN AssertionError("empty")
  ELSE Returned(Omitted)

\* validateErrorResponse (response, expectedStatus = 400)
DefaultErrorStatus == 400
ExpectedErrorArg(expectedStatus) ==
  IF expectedStatus.def THEN expectedStatus.v ELSE DefaultErrorStatus

\* BasePageObject.validateErrorResponse:
\*   const body = this.validateAndGetBody(response, expectedStatus)
\*   this.responseValidations.validateErrorResponse(body)
\*   return body
PageValidateErrorResponse(response, expectedStatus) ==
  LET body == PageValidateAndGetBody(response, expectedStatus)
  IN IF body.kind = "raised" THEN body
     ELSE IF ValidateErrorResponseOutcome(body.value).kind = "raised"
       THEN ValidateErrorResponseOutcome(body.value)
     ELSE body

ValidateErrorResponse(response, expectedStatus) ==
  /\ ck_op = "none"
  /\ ck_op' = "page.validateErrorResponse"
  /\ ck_in' = [response |-> response, expectedStatus |-> expectedStatus]
  /\ ck_out' = PageValidateErrorResponse(response, ExpectedErrorArg(expectedStatus))
  /\ UNCHANGED <<rtVars, clVars, vrVars, hpVars>>

\* The error responses tried.
ErrorBodies ==
  {JsObject("error" :> JsString("Bad Request")), JsObject("error" :> JsString("")),
   JsObject("error" :> JsNumber(1)), JsObject(EmptyObj),
   JsObject("body" :> JsObject("error" :> JsString("Bad Request"))),
   JsString("Bad Request"), JsNull, Omitted}
ErrorResponses ==
  {Omitted} \cup
  {WithOptional(WithOptional(WithOptional(
       [tag |-> "response"], "status", st), "headers", h), "body", b) :
     st \in {Absent, Present(400), Present(404)},
     h \in {Absent, Present(EmptyObj), Present(JsonHeaders)},
     b \in {Absent} \cup {Present(x) : x \in ErrorBodies}}
ErrorStatusArgs == {JsUndefined, JsNum(400), JsNum(404)}

(***************************************************************************)
(* getSorted of the comments client and of the posts client, whose bodies  *)
(* are the same.                                                           *)
(***************************************************************************)
\* The collation order of the lower-case letters the inputs use.
CharRank == ("a" :> 1) @@ ("b" :> 2) @@ ("c" :> 3)
\* a.localeCompare(b): -1, 0 or 1
RECURSIVE LocaleCompare(_, _)
LocaleCompare(a, b) ==
  IF a = b THEN 0
  ELSE IF a = "" THEN -1
  ELSE IF b = "" THEN 1
  ELSE IF CharRank[CharAt(a, 1)] < CharRank[CharAt(b, 1)] THEN -1
  ELSE IF CharRank[CharAt(a, 1)] > CharRank[CharAt(b, 1)] THEN 1
  ELSE LocaleCompare(SubSeq(a, 2, Len(a)), SubSeq(b, 2, Len(b)))

\* async getSorted(sortField = 'id', sortOrder = 'asc')
SortArg(s) == [def |-> TRUE, v |-> s]
SortFieldArg(sortField) == IF sortField.def THEN sortField.v ELSE "id"
SortOrderArg(sortOrder) == IF sortOrder.def THEN sortOrder.v ELSE "asc"

\* The body of the loop for one i: whether its expect passes.
\*   strings: expect(current.localeCompare(previous)).to.be.at.least(-1)
\*            or .to.be.at.most(1)
\*   otherwise: expect(current).to.be.at.least(previous) or .to.be.at.most(previous),
\*            which fail on a value that is not a number
PairPasses(current, previous, sortOrder) ==
  IF current.tag = "string" /\ previous.tag = "string"
    THEN IF sortOrder = "asc" THEN LocaleCompare(current.s, previous.s) >= -1
         ELSE LocaleCompare(current.s, previous.s) <= 1
  ELSE /\ current.tag = "number"
       /\ previous.tag = "number"
       /\ IF sortOrder = "asc" THEN current.v >= previous.v
          ELSE current.v <= previous.v

\* Math.min(comments.length, 10)
SortWindow == 10
Min(a, b) == IF a < b THEN a ELSE b

\* The loop from i on, over the items up to last: the first statement that
\* throws ends it.  Reading comments[i][sortField] of an item that is null
\* throws a TypeError.
RECURSIVE SortLoop(_, _, _, _, _)
SortLoop(items, i, last, sortField, sortOrder) ==
  IF i > last THEN Returned(Omitted)
  ELSE IF items[i].tag \in {"null", "undefined"}
          \/ items[i - 1].tag \in {"null", "undefined"}
    THEN TypeError("Cannot read properties of null")
  ELSE IF ~PairPasses(GetProp(items[i], sortField), GetProp(items[i - 1], sortField),
                      sortOrder)
    THEN AssertionError("order")
  ELSE SortLoop(items, i + 1, last, sortField, sortOrder)

\*   const comments = this.validateSuccessResponse(response)
\*   expect(comments).to.be.an('array')
\*   if (comments.length > 1) { for (let i = 1; i < Math.min(...); i++) ... }
\*   return comments
\* (i counts from 0 in the source, from 1 here)
GetSortedOutcome(outcome, sortField, sortOrder) ==
  IF outcome.kind = "raised" THEN outcome
  ELSE LET valid == ApiValidateSuccessResponse(outcome.value,
                                               ExpectedSuccessArg(JsUndefined))
       IN IF valid.kind = "raised" THEN valid
          ELSE IF ~IsA(valid.value, "array") THEN AssertionError("array")
          ELSE IF SortLoop(valid.value.items, 2,
                           Min(Len(valid.value.items), SortWindow),
                           sortField, sortOrder).kind = "raised"
            THEN SortLoop(valid.value.items, 2,
                          Min(Len(valid.value.items), SortWindow),
                          sortField, sortOrder)
          ELSE valid

\* getSorted(sortField, sortOrder) of the comments or the posts client, up to
\* its await, and after it
GetSorted(client, sortField, sortOrder) ==
  /\ Suspend(client \o ".getSorted", [sortField |-> sortField, sortOrder |-> sortOrder])
  /\ ClientGet(JsString("/" \o client \o "?_sort=" \o SortFieldArg(sortField)
                        \o "&_order=" \o SortOrderArg(sortOrder)))
GetSortedContinue ==
  /\ Resumable({"comments.getSorted", "posts.getSorted"})
  /\ Resume(GetSortedOutcome(Awaited, SortFieldArg(ck_in.sortField),
                             SortOrderArg(ck_in.sortOrder)))

\* The lists tried, of items whose id and name are ordered the same way:
\* every list of at most FreeSorted items over two samples; the lists of at
\* most MaxSorted items, longer than the window of 10 among them, whose items
\* are equal but for one larger item at any place or none; short lists with
\* equal names, a name that is a prefix of the next and an item without a
\* name; and lists that hold null.
MaxSorted == 11
FreeSorted == 3
Sortable(id, name) == JsObject(("id" :> JsNumber(id)) @@ ("name" :> JsString(name)))
SortableSamples == {Sortable(1, "ab"), Sortable(2, "b")}
OneLarger(n, k) ==
  [i \in 1 .. n |-> IF i = k THEN Sortable(2, "b") ELSE Sortable(1, "ab")]
SortedLists ==
  UNION {[1 .. n -> SortableSamples] : n \in 0 .. FreeSorted}
  \cup UNION {{OneLarger(n, k) : k \in 0 .. n} : n \in (FreeSorted + 1) .. MaxSorted}
  \cup {<<Sortable(1, "a"), Sortable(1, "a")>>,
        <<Sortable(2, "abc"), Sortable(1, "ab")>>,
        <<Sortable(1, "a"), JsObject("id" :> JsNumber(2))>>,
        <<Sortable(1, "a"), JsNull>>,
        <<JsNull, Sortable(1, "a")>>,
        <<JsNull, JsNull>>,
        <<Sortable(2, "b"), Sortable(1, "ab"), JsNull>>}
SortedAnswers ==
  {Resolved(Envelope(200, JsonHeaders, JsArray(l))) : l \in SortedLists}
  \cup {Resolved(Envelope(200, JsonHeaders, JsObject(EmptyObj))),
        Rejected(Envelope(500, JsonHeaders, JsObject(EmptyObj)), FALSE)}
SortFieldArgs == {JsUndefined, SortArg("name")}
SortOrderArgs == {JsUndefined, SortArg("asc"), SortArg("desc")}

(***************************************************************************)
(* Fan-out and join: getById calls joined by Promise.all                   *)
(***************************************************************************)
\* UsersApiClient.getById(userId), from the outcome of
\* `await this.client.get(...)`:
\*   const user = this.validateSuccessResponse(response)
\*   this.schemaValidations.validateUserSchema(user)
\*   expect(user.id).to.equal(userId)
\*   return user
GetByIdOutcome(outcome, userId) ==
  IF outcome.kind = "raised" THEN outcome
  ELSE LET valid == ApiValidateSuccessResponse(outcome.value,
                                               ExpectedSuccessArg(JsUndefined))
       IN IF valid.kind = "raised" THEN valid
          ELSE IF ValidateUserSchemaOutcome(valid.value).kind = "raised"
            THEN ValidateUserSchemaOutcome(valid.value)
          ELSE IF ~StrictEquals(GetProp(valid.value, "id"), JsNumber(userId))
            THEN AssertionError("id")
          ELSE valid

\* userIds.map(id => usersApi.getById(id)), one call of it: getById runs up
\* to its await, having made its request, and its promise joins the array.
GetById(userId) ==
  /\ Send("get", JsString("/users/" \o ToString(userId)), NoBody, NoBody,
          DefaultArg(Omitted, EmptyObj))
  /\ userPromises' = Append(userPromises,
                            [userId |-> userId, req |-> Len(reqs) + 1,
                             out |-> NoOutcome])
  /\ UNCHANGED <<rtVars, vrVars, ckVars, hpVars>>

\* Promise.all over the promises, when its reaction to the settlement of
\* promise k runs: it rejects with the reason of the first rejection it
\* reacts to, and fulfils, once it has reacted to the fulfilment of every
\* promise, with the values in call order.  A reaction that runs after
\* Promise.all has settled changes nothing.
JoinAfter(j, k, ps) ==
  IF j.state # "pending" THEN [j EXCEPT !.queue = Tail(@)]
  ELSE IF ps[k].out.kind = "raised"
    THEN [state |-> "rejected", n |-> j.n, reason |-> ps[k].out.error,
          queue |-> Tail(j.queue)]
  ELSE IF j.seen \cup {k} = 1 .. j.n
    THEN [state |-> "fulfilled", n |-> j.n,
          values |-> [m \in 1 .. j.n |-> ps[m].out.value],
          queue |-> Tail(j.queue)]
  ELSE [j EXCEPT !.seen = @ \cup {k}, !.queue = Tail(@)]

\* The rest of the k-th getById, after its await, as a job of its own once
\* the verb call has completed: it settles the promise of getById.  When
\* Promise.all watches that promise, its reaction is queued behind the jobs
\* already waiting; it runs in a later step.
GetByIdContinue(k) ==
  /\ k \in 1 .. Len(userPromises)
  /\ userPromises[k].out = NoOutcome
  /\ reqs[userPromises[k].req].phase = "done"
  /\ userPromises' =
       [userPromises EXCEPT ![k].out = GetByIdOutcome(reqs[userPromises[k].req].out,
                                                      userPromises[k].userId)]
  /\ joined' = IF joined.state = "none" \/ k > joined.n THEN joined
               ELSE [joined EXCEPT !.queue = Append(@, k)]
  /\ UNCHANGED <<defaultHeaders, now, reqs, hist>>
  /\ UNCHANGED <<rtVars, vrVars, ckVars, hpVars>>

\* Promise.all(userPromises) over the promises made so far: it registers a
\* reaction on each promise; the reactions to the promises already settled
\* are queued at once, in call order.
PromiseAll ==
  /\ joined.state = "none"
  /\ Len(userPromises) >= 1
  /\ joined' = [state |-> "pending", n |-> Len(userPromises), seen |-> {},
                queue |-> SelectSeq([k \in 1 .. Len(userPromises) |-> k],
                                    LAMBDA k : userPromises[k].out # NoOutcome)]
  /\ UNCHANGED <<defaultHeaders, now, reqs, hist, userPromises>>
  /\ UNCHANGED <<rtVars, vrVars, ckVars, hpVars>>

\* The oldest queued reaction of Promise.all runs.
PromiseAllReaction ==
  /\ joined.state # "none"
  /\ joined.queue # <<>>
  /\ joined' = JoinAfter(joined, Head(joined.queue), userPromises)
  /\ UNCHANGED <<defaultHeaders, now, reqs, hist, userPromises>>
  /\ UNCHANGED <<rtVars, vrVars, ckVars, hpVars>>

\* The service answers the request of the k-th getById with the user asked
\* for.
UserAnswer(k) ==
  [kind |-> "response",
   response |-> [Envelope(200, JsonHeaders, UserSample(userPromises[k].userId))
                   EXCEPT !.req = k]]

\* The test: getById for the ids 1, 2, ... in one synchronous run on one
\* client, then Promise.all over the promises, then the answers of the
\* transport in any order (the user, a response without headers, or a 404
\* rejection), each followed by the jobs it sets off.  Time
\* passes while a verb call has not completed.
NextConcurrent ==
  \/ joined.state = "none" /\ Len(userPromises) < MaxFanOut
       /\ GetById(Len(userPromises) + 1)
  \/ PromiseAll
  \/ joined.state # "none" /\ \E i \in 1 .. Len(reqs) :
       TransportAnswers(i, UserAnswer(i))
  \/ joined.state # "none" /\ \E i \in 1 .. Len(reqs), s \in OkStatuses :
       TransportResolves(i, s)
  \/ joined.state # "none" /\ \E i \in 1 .. Len(reqs) :
       TransportRejects(i, TransportResponse(i, 404), FALSE)
  \/ joined.state # "none" /\ \E i \in 1 .. Len(reqs) : Continue(i)
  \/ \E k \in 1 .. Len(userPromises) : GetByIdContinue(k)
  \/ PromiseAllReaction
  \/ now < MaxFanTime /\ ~AllDone /\ Tick
SpecConcurrent == Init /\ [][NextConcurrent]_vars

\* An operation is suspended at the await of its request, which the
\* transport has not answered or whose continuation has not run.
RequestOpen ==
  /\ reqs # <<>>
  /\ reqs[1].phase \in {"inflight", "settled"}
\* The transport answers the request of the suspended operation, one of ops,
\* with one of answers.
ServiceAnswers(ops, answers) ==
  /\ ck_op \in ops
  /\ reqs[1].phase = "inflight"
  /\ \E a \in answers : TransportAnswers(1, a)

\* Each helper and each operation applied once, to any of its inputs; none
\* is applied after another has been.  An operation that makes a request
\* goes on when the transport has answered and the verb call has completed.
\* Time passes while the request is in flight, and until the verb call has
\* completed another callback may change the default headers of the client
\* and then make a request of its own on it.
NextChecks ==
  \/ ck_op = "none" /\ \E e \in ExpectedStatuses :
                      ExpectClientError(JsString("/users/999999"), e)
  \/ ck_op = "none" /\ VerifyNotFound(999999)
  \/ ck_op = "none" /\ \E u \in UserCandidates : ValidateUserSchema(u)
  \/ ck_op = "none" /\ CommentsCreate(CommentFixture)
  \/ ck_op = "none" /\ UsersCreate(UserFixture)
  \/ ck_op = "none" /\ GetAll
  \/ ck_op = "none" /\ GetAllUsers
  \/ ck_op = "none" /\ \E r \in SuccessResponses, e \in SuccessStatuses : ValidateSuccessResponse(r, e)
  \/ ck_op = "none" /\ \E r \in PagedResponses, o \in PageOptions : ValidatePaginationResponse(r, o)
  \/ ck_op = "none" /\ \E r \in HeaderResponses : ValidateJsonContentType(r)
  \/ ck_op = "none" /\ \E e \in EmailTexts : IsValidEmail(e)
  \/ ck_op = "none" /\ \E c \in EmailComments : ValidateEmail(c)
  \/ ck_op = "none" /\ \E c \in {"comments", "posts"},
                         f \in SortFieldArgs, o \in SortOrderArgs :
                      GetSorted(c, f, o)
  \/ ck_op = "none" /\ \E r \in ErrorResponses, e \in ErrorStatusArgs :
                      ValidateErrorResponse(r, e)
  \/ ck_op = "none" /\ GetStatistics(JsNumber(1))
  \/ ck_op = "none" /\ GetCommentsStatistics(JsNumber(1))
  \/ ServiceAnswers({"expectClientError", "verifyNotFound"}, RequestAnswers)
  \/ ServiceAnswers({"comments.create"}, CreateAnswers(CommentFixture))
  \/ ServiceAnswers({"users.create"}, CreateAnswers(UserFixture))
  \/ ServiceAnswers({"users.getAll", "usersPage.getAllUsers"}, GetAllAnswers)
  \/ ServiceAnswers({"comments.getSorted", "posts.getSorted"}, SortedAnswers)
  \/ ServiceAnswers({"comments.getStatistics", "commentsPage.getCommentsStatistics"},
                    CommentListAnswers)
  \/ \E i \in 1 .. Len(reqs) : Continue(i)
  \/ RequestOpen /\ reqs[1].phase = "inflight" /\ now < MaxTook /\ Tick
  \/ RequestOpen /\ Len(hist) = 1 /\ SetDefaultHeaders("A" :> "1")
  \/ RequestOpen /\ Len(hist) = 2 /\ Len(reqs) = 1 /\ Get(Endpoint, Omitted)
  \/ Len(reqs) = 2 /\ \E s \in OkStatuses : TransportResolves(2, s)
  \/ ExpectClientErrorContinue
  \/ VerifyNotFoundSettles
  \/ CommentsCreateContinue
  \/ UsersCreateContinue
  \/ GetAllContinue
  \/ GetAllUsersContinue
  \/ GetSortedContinue
  \/ GetByPostIdContinue
  \/ GetStatisticsContinue
  \/ GetCommentsByPostIdContinue
  \/ GetCommentsStatisticsContinue
SpecChecks == Init /\ [][NextChecks]_vars

(***************************************************************************)
(* Properties of retry, checked under SpecRetry.                           *)
(***************************************************************************)
RtEvents(kind) == SelectSeq(rt_log, LAMBDA e : e.ev = kind)
RtCalls == Len(RtEvents("call"))
RtFails == Len(RtEvents("fail"))
RtDelays == [k \in 1 .. Len(RtEvents("delay")) |-> RtEvents("delay")[k].val]
RtLast == rt_log[Len(rt_log)]

\* C1: an operation that fails N times and then succeeds, retried with
\* maxRetries >= N, makes retry return the success value after exactly N+1
\* invocations and exactly N delays, the k-th of which is base * 2^(k-1);
\* retry gives up only on an operation that failed more than maxRetries times.
C1_SucceedsAfterNFailures ==
  /\ (rt_log # <<>> /\ RtLast.ev = "ok") =>
       /\ rt_pc = "returned"
       /\ rt_result = RtLast.val
       /\ RtFails <= rt_maxRetries
       /\ RtCalls = RtFails + 1
       /\ Len(RtDelays) = RtFails
       /\ \A k \in 1 .. RtFails : RtDelays[k] = rt_delay * 2 ^ (k - 1)
  /\ rt_pc = "thrown" => RtFails > rt_maxRetries
  /\ (rt_pc = "returned" /\ rt_maxRetries >= 0) => RtLast.ev = "ok"

\* C1 witness: retry has returned the value of an operation that failed three
\* times before it succeeded, with a base delay above zero.
C1_Witness ==
  /\ rt_pc = "returned"
  /\ RtFails = 3
  /\ rt_delay = 3
  /\ RtDelays = <<3, 6, 12>>
  /\ rt_result = "v2"

\* C2: an operation that always fails, retried with maxRetries = K, is invoked
\* exactly K+1 times, and retry then raises the error of the last attempt.
C2_AlwaysFailingThrowsLastError ==
  /\ rt_pc = "thrown" =>
       /\ RtCalls = rt_maxRetries + 1
       /\ RtFails = rt_maxRetries + 1
       /\ RtLast.ev = "fail"
       /\ rt_result = RtLast.val
  /\ (rt_maxRetries >= 0 /\ RtFails = rt_maxRetries + 1) => rt_pc = "thrown"
  /\ (rt_pc # "idle" /\ rt_maxRetries >= 0) => RtCalls <= rt_maxRetries + 1

\* C2 witness: retry has raised after three failed attempts whose first and
\* last errors differ.
C2_Witness ==
  /\ rt_pc = "thrown"
  /\ rt_maxRetries = 2
  /\ RtEvents("fail")[1].val = "e1"
  /\ RtLast.val = "e404"
  /\ rt_result = "e404"

(***************************************************************************)
(* Properties of the verb operations, checked under SpecClient.            *)
(***************************************************************************)
DoneReqs == {i \in 1 .. Len(reqs) : reqs[i].phase = "done"}

\* The durations attached to what a verb operation returned or raised: on the
\* returned response, on the raised error, or on the raised error's response.
AttachedDurations(out) ==
  IF out.kind = "returned"
    THEN IF "duration" \in DOMAIN out.value THEN {out.value.duration} ELSE {}
    ELSE (IF "duration" \in DOMAIN out.error THEN {out.error.duration} ELSE {})
         \cup (IF "duration" \in DOMAIN out.error.response
                 THEN {out.error.response.duration} ELSE {})

\* The transport answered request i with a response: a success, or an error
\* that carries one.
AnsweredWithResponse(i) ==
  \/ reqs[i].ans.kind = "response"
  \/ reqs[i].ans.kind = "error" /\ reqs[i].ans.error.response # NoResponse

\* C3 as stated: whatever the outcome of a request, what the verb operation
\* returned or raised carries a duration, which is >= 0 and at least the time
\* the transport took to answer.
C3_DurationOnEveryOutcome ==
  \A i \in DoneReqs :
    /\ AttachedDurations(reqs[i].out) # {}
    /\ \A d \in AttachedDurations(reqs[i].out) :
         d >= 0 /\ d >= reqs[i].ansAt - reqs[i].start

\* C3 amended: when the transport answers with a response (a success or an
\* HTTP error status), the response returned or carried by the raised error
\* has a duration, which is >= 0 and at least the time the transport took to
\* answer; the error raised after a timeout or a network failure carries no
\* duration.
C3_DurationOnEveryResponse ==
  \A i \in DoneReqs :
    IF AnsweredWithResponse(i)
      THEN /\ AttachedDurations(reqs[i].out) # {}
           /\ \A d \in AttachedDurations(reqs[i].out) :
                d >= 0 /\ d >= reqs[i].ansAt - reqs[i].start
      ELSE AttachedDurations(reqs[i].out) = {}

\* C3 witness: one request was answered with status 200 a millisecond after
\* its start and returned a millisecond later still, with duration 2.
C3_Witness ==
  \E i \in DoneReqs :
    /\ reqs[i].ans.kind = "response"
    /\ reqs[i].ansAt - reqs[i].start = 1
    /\ reqs[i].out.kind = "returned"
    /\ reqs[i].out.value.duration = 2

\* C4: when the transport fails with a response of status 4xx or 5xx, the verb
\* operation raises the transport's own error, which carries that response
\* with the same status and with the elapsed duration attached to it.
C4_HttpErrorKeepsResponse ==
  \A i \in DoneReqs :
    (/\ reqs[i].ans.kind = "error"
     /\ reqs[i].ans.error.response # NoResponse
     /\ reqs[i].ans.error.response.status \in 400 .. 599) =>
      /\ reqs[i].out.kind = "raised"
      /\ reqs[i].out.error.origin = "transport"
      /\ reqs[i].out.error.req = i
      /\ reqs[i].out.error.message = reqs[i].ans.error.message
      /\ reqs[i].out.error.response # NoResponse
      /\ reqs[i].out.error.response.req = i
      /\ reqs[i].out.error.response.status = reqs[i].ans.error.response.status
      /\ reqs[i].out.error.response.body = reqs[i].ans.error.response.body
      /\ "duration" \in DOMAIN reqs[i].out.error.response
      /\ reqs[i].out.error.response.duration = reqs[i].endAt - reqs[i].start

\* C4 witness: a request answered with status 404 has raised an error whose
\* response has status 404 and duration 1.
C4_Witness ==
  \E i \in DoneReqs :
    /\ reqs[i].ans.kind = "error"
    /\ reqs[i].ans.error.response # NoResponse
    /\ reqs[i].ans.error.response.status = 404
    /\ reqs[i].out.kind = "raised"
    /\ reqs[i].out.error.response.status = 404
    /\ reqs[i].out.error.response.duration = 1

\* The three kinds of error a verb operation raises.
IsHttpError(err) == err.response # NoResponse
IsTimeoutError(err) ==
  err.response = NoResponse /\ err.message = "Request timeout after 10000ms"
IsNetworkError(err) ==
  err.response = NoResponse /\ err.message = "Network error: ECONNRESET"

\* C5: a transport failure without a response is classified by its timeout
\* flag alone: a timeout error if the flag is set, a network error otherwise,
\* neither with a response attached; and every transport failure ends as
\* exactly one of HTTP error, timeout error, network error.
C5_ClassifiedByTimeoutAlone ==
  \A i \in DoneReqs :
    reqs[i].ans.kind = "error" =>
      /\ reqs[i].out.kind = "raised"
      /\ reqs[i].ans.error.response = NoResponse =>
           /\ reqs[i].out.error.response = NoResponse
           /\ IsTimeoutError(reqs[i].out.error) <=> reqs[i].ans.error.timeout
           /\ IsNetworkError(reqs[i].out.error) <=> ~reqs[i].ans.error.timeout
      /\ reqs[i].ans.error.response # NoResponse => IsHttpError(reqs[i].out.error)
      /\ Cardinality({k \in {"http", "timeout", "network"} :
            \/ k = "http" /\ IsHttpError(reqs[i].out.error)
            \/ k = "timeout" /\ IsTimeoutError(reqs[i].out.error)
            \/ k = "network" /\ IsNetworkError(reqs[i].out.error)}) = 1

\* C5 witness: a request whose transport call timed out without a response
\* has raised the timeout error.
C5_Witness ==
  \E i \in DoneReqs :
    /\ reqs[i].ans.kind = "error"
    /\ reqs[i].ans.error.response = NoResponse
    /\ reqs[i].ans.error.timeout
    /\ reqs[i].out.kind = "raised"
    /\ IsTimeoutError(reqs[i].out.error)

\* C6: a verb operation whose transport call failed ends by raising an error;
\* it never returns.
C6_NeverSwallows ==
  \A i \in DoneReqs :
    reqs[i].ans.kind = "error" => reqs[i].out.kind = "raised"

\* C6 witness: a delete whose transport call failed without a response and
\* without a timeout has raised.
C6_Witness ==
  \E i \in DoneReqs :
    /\ reqs[i].verb = "delete"
    /\ reqs[i].ans.kind = "error"
    /\ reqs[i].ans.error.response = NoResponse
    /\ ~reqs[i].ans.error.timeout
    /\ reqs[i].out.kind = "raised"

(***************************************************************************)
(* Properties of the headers, checked under SpecHeaders.                   *)
(***************************************************************************)
Verbs == {"get", "post", "put", "patch", "delete"}
VerbCalls == {j \in 1 .. Len(hist) : hist[j].op \in Verbs}

\* C7: the headers a verb operation sends are the default headers of that
\* moment merged with the call's overrides: exactly the keys of the two, with
\* the override's value on a collision and the only value otherwise; defaults
\* {A:1} with overrides {A:2, B:3} yield {A:2, B:3}.
C7_HeaderMergeRightBiased ==
  /\ \A j \in VerbCalls :
       LET sent == reqs[hist[j].req].sent
           defaults == hist[j].defaults
           overrides == hist[j].arg
       IN /\ DOMAIN sent = DOMAIN defaults \cup DOMAIN overrides
          /\ \A k \in DOMAIN overrides : sent[k] = overrides[k]
          /\ \A k \in DOMAIN defaults \ DOMAIN overrides : sent[k] = defaults[k]
  /\ Spread("A" :> "1", ("A" :> "2") @@ ("B" :> "3")) = ("A" :> "2") @@ ("B" :> "3")

\* C7 witness: with A: 1 among the defaults, a post called with the overrides
\* {A: 2, B: 3} has sent A: 2 and B: 3 and kept the default Content-Type.
C7_Witness ==
  \E j \in VerbCalls :
    /\ hist[j].op = "post"
    /\ "A" \in DOMAIN hist[j].defaults
    /\ hist[j].defaults["A"] = "1"
    /\ hist[j].arg = ("A" :> "2") @@ ("B" :> "3")
    /\ reqs[hist[j].req].sent["A"] = "2"
    /\ reqs[hist[j].req].sent["B"] = "3"
    /\ reqs[hist[j].req].sent["Content-Type"] = "application/json"

\* The calls before call j that set the Authorization default: setAuthToken,
\* and setDefaultHeaders when given an Authorization key.
AuthSettersBefore(j) ==
  {i \in 1 .. j - 1 :
     \/ hist[i].op = "setAuthToken"
     \/ hist[i].op = "setDefaultHeaders" /\ "Authorization" \in DOMAIN hist[i].arg}

\* C8: when the last call before a verb operation that set the Authorization
\* default is setAuthToken(t), the operation sends Authorization: 'Bearer t',
\* unless its own overrides name Authorization, whose value it then sends.
C8_AuthTokenUsedUntilChanged ==
  \A j \in VerbCalls :
    \A i \in AuthSettersBefore(j) :
      (/\ \A m \in AuthSettersBefore(j) : m <= i
       /\ hist[i].op = "setAuthToken") =>
        LET sent == reqs[hist[j].req].sent
        IN /\ "Authorization" \in DOMAIN sent
           /\ sent["Authorization"] =
                IF "Authorization" \in DOMAIN hist[j].arg
                  THEN hist[j].arg["Authorization"]
                  ELSE "Bearer " \o hist[i].arg

\* C8 witness: after setAuthToken("t1") and then setAuthToken("t2"), a verb
\* operation called without an Authorization override has sent 'Bearer t2'.
C8_Witness ==
  \E j \in VerbCalls :
    /\ j = 3
    /\ hist[1].op = "setAuthToken" /\ hist[1].arg = "t1"
    /\ hist[2].op = "setAuthToken" /\ hist[2].arg = "t2"
    /\ hist[j].arg = EmptyObj
    /\ reqs[hist[j].req].sent["Authorization"] = "Bearer t2"
    /\ reqs[hist[j].req].phase = "done"

(***************************************************************************)
(* Properties of validateResponseTime, checked under SpecValidate.         *)
(***************************************************************************)
\* C9 as stated: for a response whose recorded duration is a non-negative
\* integer, validateResponseTime(resp, max) completes silently if and only if
\* that duration is <= max, the boundary values duration == max, duration == 0
\* and max == 0 included.
C9_PassesIffDurationWithinMax ==
  (vr_pc # "ready" /\ "duration" \in DOMAIN vr_resp) =>
    (vr_pc = "passed" <=> vr_resp["duration"] <= vr_max.v)

(***************************************************************************)
(* Properties of concurrent use, checked under SpecConcurrent.             *)
(***************************************************************************)
\* C10: with several verb operations in flight on one client and the answers
\* arriving in any order, each operation returns (or raises with) the response
\* the transport made for its own request, with the duration measured from its
\* own start timestamp to its own completion, and Promise.all fulfils with the
\* results in request order: the k-th value is the body of the response to
\* the k-th request, the user with the k-th id.
C10_ConcurrentCallsIndependent ==
  /\ \A i \in DoneReqs :
       IF reqs[i].ans.kind = "response"
         THEN /\ reqs[i].out.kind = "returned"
              /\ reqs[i].out.value.req = i
              /\ reqs[i].out.value.status = reqs[i].ans.response.status
              /\ reqs[i].out.value.duration = reqs[i].endAt - reqs[i].start
         ELSE /\ reqs[i].out.kind = "raised"
              /\ reqs[i].out.error.response.req = i
              /\ reqs[i].out.error.response.status = reqs[i].ans.error.response.status
              /\ reqs[i].out.error.response.duration = reqs[i].endAt - reqs[i].start
  /\ joined.state = "fulfilled" =>
       /\ Len(joined.values) = joined.n
       /\ \A k \in 1 .. joined.n :
            /\ userPromises[k].req = k
            /\ reqs[k].out.kind = "returned"
            /\ joined.values[k] = reqs[k].out.value.body
            /\ joined.values[k].props["id"].v = userPromises[k].userId

\* C10 witness: two calls started at different times were joined; the second
\* completed before the first, with duration 0, the first with duration 1,
\* and the join holds the user of the first before the user of the second.
C10_Witness ==
  /\ joined.state = "fulfilled"
  /\ joined.n = 2
  /\ reqs[1].start = 0 /\ reqs[2].start = 1
  /\ reqs[1].phase = "done" /\ reqs[2].phase = "done"
  /\ reqs[1].endAt = 1 /\ reqs[2].endAt = 1
  /\ reqs[1].out.value.duration = 1
  /\ reqs[2].out.value.duration = 0
  /\ joined.values[1].props["id"].v = 1
  /\ joined.values[2].props["id"].v = 2

\* What the transport answered the request of the operation with, how long
\* the verb call took, and whether the operation, one of ops, has settled.
CkAnswer == reqs[ck_in.req].ans
CkTook == reqs[ck_in.req].endAt - reqs[ck_in.req].start
Settled(ops) == ck_op \in ops /\ ck_out.kind # "pending"

(***************************************************************************)
(* Properties of expectClientError and validateUserSchema, checked under   *)
(* SpecChecks.                                                             *)
(***************************************************************************)
\* C11: expectClientError(requestFn, expectedStatus), and verifyNotFound with
\* 404, returns the response of the error, raising nothing, if and only if
\* requestFn failed with an error that carries a response whose status is in
\* 400..499 and equals expectedStatus; when requestFn succeeds, fails with
\* another status or fails without a response, it raises.
C11_ReturnsIffExpectedClientError ==
  Settled({"expectClientError", "verifyNotFound"}) =>
    LET a == CkAnswer
        expected == IF ck_in.expectedStatus.def THEN ck_in.expectedStatus.v
                    ELSE 400
        qualifies == /\ a.kind = "error"
                     /\ a.error.response # NoResponse
                     /\ a.error.response.status \in 400 .. 499
                     /\ a.error.response.status = expected
    IN /\ (ck_out.kind = "returned") <=> qualifies
       /\ ~qualifies => ck_out.kind = "raised"
       /\ qualifies =>
            \A k \in DOMAIN a.error.response : ck_out.value[k] = a.error.response[k]

\* C11 witness: verifyNotFound has returned the 404 response its request was
\* rejected with.
C11_Witness ==
  /\ ck_op = "verifyNotFound"
  /\ CkAnswer = Rejected(TransportResponse(1, 404), FALSE)
  /\ ck_out.kind = "returned"
  /\ ck_out.value.status = 404

\* The eight fields the User schema requires, by required type.
UserNumberFields == {"id"}
UserStringFields == {"name", "username", "email", "phone", "website"}
UserObjectFields == {"address", "company"}
UserFields == UserNumberFields \cup UserStringFields \cup UserObjectFields
SatisfiesUserSchema(u) ==
  /\ u.tag = "object"
  /\ UserFields \subseteq DOMAIN u.props
  /\ \A f \in UserNumberFields : u.props[f].tag = "number"
  /\ \A f \in UserStringFields : u.props[f].tag = "string"
  /\ \A f \in UserObjectFields : u.props[f].tag = "object"

\* C12: validateUserSchema rejects every object that lacks one of the eight
\* required fields, and accepts every object that has all eight with the
\* required types, whatever other fields it has.
C12_UserSchemaRequiresEightTypedFields ==
  ck_op = "validateUserSchema" =>
    LET u == ck_in.user
    IN /\ (u.tag = "object" /\ ~(UserFields \subseteq DOMAIN u.props)) =>
            ck_out.kind = "raised"
       /\ SatisfiesUserSchema(u) => ck_out.kind = "returned"

\* C12 witness: a user with the eight fields and one more has been accepted.
C12_Witness ==
  /\ ck_op = "validateUserSchema"
  /\ SatisfiesUserSchema(ck_in.user)
  /\ "extra" \in DOMAIN ck_in.user.props
  /\ ck_out.kind = "returned"

(***************************************************************************)
(* Properties of create and getAll, checked under SpecChecks.              *)
(***************************************************************************)
\* The answer to the request of the operation, when it is a response with a
\* body that is an object.
AnsweredObject ==
  /\ CkAnswer.kind = "response"
  /\ CkAnswer.response.body.tag = "object"
AnsweredBody == CkAnswer.response.body
\* The answer has a content-type header whose value contains application/json.
AnsweredJson ==
  /\ "content-type" \in DOMAIN CkAnswer.response.headers
  /\ Includes(CkAnswer.response.headers["content-type"], "application/json")
NumericId(body) == "id" \in DOMAIN body.props /\ body.props["id"].tag = "number"
SameField(body, data, f) == f \in DOMAIN body.props /\ body.props[f] = data.props[f]

\* C13: when the service answers the POST of create by echoing the submitted
\* fields plus a numeric id, create returns that object and raises nothing;
\* when an echoed field differs from the submitted one, or the id is not a
\* number, create raises.
C13_CreateReturnsEcho ==
  Settled({"comments.create", "users.create"}) =>
    /\ (/\ AnsweredObject
        /\ NumericId(AnsweredBody)
        /\ \A f \in DOMAIN ck_in.data.props : SameField(AnsweredBody, ck_in.data, f))
         => (ck_out.kind = "returned" /\ ck_out.value = AnsweredBody)
    /\ (/\ AnsweredObject
        /\ \/ ~NumericId(AnsweredBody)
           \/ \E f \in DOMAIN ck_in.data.props :
                f \in DOMAIN AnsweredBody.props
                /\ AnsweredBody.props[f] # ck_in.data.props[f])
         => ck_out.kind = "raised"

\* The fields each create compares.
ComparedBy(op) ==
  IF op = "comments.create" THEN {"name", "email", "body", "postId"}
  ELSE {"name", "username", "email"}

\* C13, amended: create returns the answered body, raising nothing, exactly
\* when the POST is answered with status 201, a JSON content-type, and a body
\* with a numeric id whose compared fields (comments: name, email, body,
\* postId; users: name, username, email) equal the submitted ones; otherwise
\* it raises.  A field that is not compared may differ.
C13_CreateReturnsIffCreatedAndComparedEqual ==
  Settled({"comments.create", "users.create"}) =>
    /\ (ck_out.kind = "returned") <=>
         /\ AnsweredObject
         /\ CkAnswer.response.status = 201
         /\ AnsweredJson
         /\ NumericId(AnsweredBody)
         /\ \A f \in ComparedBy(ck_op) : SameField(AnsweredBody, ck_in.data, f)
    /\ ck_out.kind \in {"returned", "raised"}
    /\ ck_out.kind = "returned" => ck_out.value = AnsweredBody

\* C13 witness: the comment fixture, echoed with id 501 in a 201 JSON answer,
\* has been returned by create.
C13_Witness ==
  /\ ck_op = "comments.create"
  /\ ck_in.data = CommentFixture
  /\ AnsweredObject
  /\ CkAnswer.response.status = 201
  /\ ck_out.kind = "returned"
  /\ ck_out.value.props = SetProp(CommentFixture.props, "id", JsNumber(501))

\* Whether GET /users was answered with an array.
AnsweredArray ==
  /\ CkAnswer.kind = "response"
  /\ CkAnswer.response.body.tag = "array"
AnsweredItems == CkAnswer.response.body.items

\* C14: when GET /users is answered with an array whose elements each satisfy
\* the User schema, getAll returns exactly those elements in the same order
\* and raises nothing; when an element violates the schema, getAll raises.
C14_GetAllReturnsValidUsers ==
  Settled({"users.getAll"}) =>
    /\ (AnsweredArray
        /\ \A i \in 1 .. Len(AnsweredItems) : SatisfiesUserSchema(AnsweredItems[i]))
         => (ck_out.kind = "returned" /\ ck_out.value.items = AnsweredItems)
    /\ (AnsweredArray
        /\ \E i \in 1 .. Len(AnsweredItems) : ~SatisfiesUserSchema(AnsweredItems[i]))
         => ck_out.kind = "raised"

\* C14, amended: getAll returns exactly the answered elements, in the same
\* order, raising nothing, exactly when GET /users is answered with status
\* 200, a JSON content-type and a non-empty array whose elements each satisfy
\* the User schema; otherwise it raises.
C14_GetAllReturnsIffOkJsonNonEmptyValid ==
  Settled({"users.getAll"}) =>
    /\ (ck_out.kind = "returned") <=>
         /\ AnsweredArray
         /\ CkAnswer.response.status = 200
         /\ AnsweredJson
         /\ Len(AnsweredItems) > 0
         /\ \A i \in 1 .. Len(AnsweredItems) : SatisfiesUserSchema(AnsweredItems[i])
    /\ ck_out.kind \in {"returned", "raised"}
    /\ ck_out.kind = "returned" => ck_out.value.items = AnsweredItems

\* C14 witness: two users, answered in the order 2, 1, have been returned in
\* that order.
C14_Witness ==
  /\ ck_op = "users.getAll"
  /\ ck_out.kind = "returned"
  /\ Len(ck_out.value.items) = 2
  /\ ck_out.value.items[1].props["id"] = JsNumber(2)
  /\ ck_out.value.items[2].props["id"] = JsNumber(1)

(***************************************************************************)
(* Properties of the response validators, checked under SpecChecks.        *)
(***************************************************************************)
\* C15: for every response, BaseApiClient.validateSuccessResponse and
\* BasePageObject.validateSuccessResponse have the same outcome: both return
\* the body or both raise.
C15_WrappersSameOutcome ==
  ck_op = "validateSuccessResponse" =>
    /\ ck_out.api.kind = ck_out.page.kind
    /\ ck_out.api.kind = "returned" => ck_out.page.value = ck_out.api.value

\* The response time the page object judges: the duration unless it is
\* missing or 0, the responseTime then; within the default budget of 3000 ms.
WithinDefaultBudget(r) ==
  IF "duration" \in DOMAIN r /\ r.duration # 0 THEN r.duration <= 3000
  ELSE "responseTime" \in DOMAIN r /\ r.responseTime <= 3000

\* C15, amended: BaseApiClient.validateSuccessResponse and
\* BasePageObject.validateAndGetBody have the same outcome for every response;
\* BasePageObject.validateSuccessResponse returns the body exactly when they
\* do and the response time of the response is within 3000 ms, and raises
\* otherwise.
C15_PageWrapperAlsoChecksTime ==
  ck_op = "validateSuccessResponse" =>
    /\ ck_out.getBody = ck_out.api
    /\ (ck_out.page.kind = "returned") <=>
         (ck_out.api.kind = "returned" /\ WithinDefaultBudget(ck_in.response))
    /\ ck_out.page.kind \in {"returned", "raised"}
    /\ ck_out.page.kind = "returned" => ck_out.page.value = ck_out.api.value

\* C15 witness: a response that took 3001 ms, returned by the resource client
\* and by validateAndGetBody, rejected by the page object.
C15_Witness ==
  /\ ck_op = "validateSuccessResponse"
  /\ ck_out.api.kind = "returned"
  /\ ck_out.getBody.kind = "returned"
  /\ ck_out.page.kind = "raised"
  /\ "duration" \in DOMAIN ck_in.response
  /\ ck_in.response.duration = 3001

\* An option of validatePaginationResponse is asserted.
Asserted(options, name) ==
  /\ options # Omitted
  /\ name \in DOMAIN options
  /\ options[name]
TypedProp(body, name, type) ==
  name \in DOMAIN body.props /\ body.props[name].tag = type

\* C16: validatePaginationResponse passes exactly when the body has data (an
\* array) and numeric page, per_page, total and total_pages, and page <
\* total_pages if hasNextPage is asserted, and page > 1 if hasPreviousPage is
\* asserted; with neither asserted, page and total_pages need not be related.
C16_PaginationPassesExactlyWhen ==
  ck_op = "validatePaginationResponse" =>
    LET r == ck_in.response
        o == ck_in.options
    IN /\ ck_out.kind \in {"returned", "raised"}
       /\ (ck_out.kind = "returned") <=>
            /\ r # Omitted
            /\ "body" \in DOMAIN r
            /\ r.body.tag = "object"
            /\ TypedProp(r.body, "data", "array")
            /\ \A f \in {"page", "per_page", "total", "total_pages"} :
                 TypedProp(r.body, f, "number")
            /\ Asserted(o, "hasNextPage") =>
                 r.body.props["page"].v < r.body.props["total_pages"].v
            /\ Asserted(o, "hasPreviousPage") => r.body.props["page"].v > 1

\* C16 witness: with no option asserted, a body whose page is beyond its
\* total_pages has passed.
C16_Witness ==
  /\ ck_op = "validatePaginationResponse"
  /\ ck_in.options = Omitted
  /\ ck_out.kind = "returned"
  /\ ck_in.response.body.props["page"].v > ck_in.response.body.props["total_pages"].v

\* A header name in lower case (of the names the answers use).
LowerCase(name) ==
  CASE name = "Content-Type" -> "content-type"
    [] name = "CONTENT-TYPE" -> "content-type"
    [] OTHER -> name

\* C17: validateJsonContentType passes exactly when the headers contain a
\* content-type key, in whatever case, whose value contains
\* 'application/json', and raises an assertion failure otherwise.
C17_JsonContentTypeAnyCase ==
  ck_op = "validateJsonContentType" =>
    LET r == ck_in.response
    IN (ck_out.kind = "returned") <=>
         /\ r # Omitted
         /\ "headers" \in DOMAIN r
         /\ \E k \in DOMAIN r.headers :
              /\ LowerCase(k) = "content-type"
              /\ Includes(r.headers[k], "application/json")

(***************************************************************************)
(* Properties of the arguments of the verb operations, checked under       *)
(* SpecArgs.                                                               *)
(***************************************************************************)
WriteVerbs == {"post", "put", "patch"}

\* C18: post, put and patch called without a body send an empty structured
\* payload ({}) to the transport: the body is sent as empty, never omitted.
C18_MissingBodySentAsEmptyObject ==
  \A j \in 1 .. Len(hist) :
    (hist[j].op \in WriteVerbs /\ hist[j].data = Omitted) =>
      /\ hist[j].req \in 1 .. Len(reqs)
      /\ reqs[hist[j].req].verb = hist[j].op
      /\ reqs[hist[j].req].body = EmptyObj
      /\ reqs[hist[j].req].body # NoBody

\* C18 witness: a put without a body has been answered, its request carrying
\* the empty object.
C18_Witness ==
  \E j \in 1 .. Len(hist) :
    /\ hist[j].op = "put"
    /\ hist[j].data = Omitted
    /\ reqs[hist[j].req].body = EmptyObj
    /\ reqs[hist[j].req].phase = "done"

\* C19: a verb operation called without an endpoint is rejected: it raises at
\* once and no request, to the base URL or to any other URL, is dispatched to
\* the transport.
C19_MissingEndpointRejected ==
  \A j \in 1 .. Len(hist) :
    (hist[j].op \in Verbs /\ hist[j].endpoint = Omitted) =>
      ~(\E i \in 1 .. Len(reqs) : hist[j].req = i)

(***************************************************************************)
(* A further property of retry, checked under SpecRetry.                   *)
(***************************************************************************)
\* C20: retry is error-agnostic: how often the operation is invoked and which
\* delays are waited depend only on how many attempts have failed, never on
\* the errors; an operation that always fails with a client error (404) is
\* invoked maxRetries+1 times, and all the backoff delays are waited, before
\* its error propagates.
C20_RetryIsErrorAgnostic ==
  (rt_pc # "idle" /\ rt_maxRetries >= 0) =>
    /\ (rt_log # <<>> /\ RtLast.ev = "fail") =>
         rt_pc = (IF RtFails <= rt_maxRetries THEN "sleeping" ELSE "thrown")
    /\ RtCalls = (IF rt_pc \in {"sleeping", "thrown"} THEN RtFails ELSE RtFails + 1)
    /\ Len(RtDelays) =
         (IF rt_pc \in {"sleeping", "thrown"} THEN RtFails - 1 ELSE RtFails)
    /\ \A k \in 1 .. Len(RtDelays) : RtDelays[k] = rt_delay * 2 ^ (k - 1)
    /\ (rt_pc = "thrown"
        /\ \A k \in 1 .. RtFails : RtEvents("fail")[k].val = "e404") =>
         /\ RtCalls = rt_maxRetries + 1
         /\ Len(RtDelays) = rt_maxRetries
         /\ rt_result = "e404"

\* C20 witness: an operation that failed with a 404 each time has been invoked
\* four times, the delays 1, 2 and 4 waited, before retry raised the 404.
C20_Witness ==
  /\ rt_pc = "thrown"
  /\ rt_maxRetries = 3
  /\ \A k \in 1 .. RtFails : RtEvents("fail")[k].val = "e404"
  /\ RtCalls = 4
  /\ RtDelays = <<1, 2, 4>>
  /\ rt_result = "e404"

(***************************************************************************)
(* What the verb operations leave alone, checked under SpecFrame.          *)
(***************************************************************************)
RECURSIVE SetterDefaults(_)
\* The default headers the setters among the first j calls make of the
\* configured ones, the verb calls among them counting for nothing.
SetterDefaults(j) ==
  IF j = 0 THEN ConfigDefaultHeaders
  ELSE LET d == SetterDefaults(j - 1)
           h == IF hist[j].op = "setDefaultHeaders" THEN hist[j].arg
                ELSE IF hist[j].op = "setAuthToken"
                  THEN "Authorization" :> ("Bearer " \o hist[j].arg)
                ELSE EmptyObj
       IN [k \in DOMAIN d \cup DOMAIN h |-> IF k \in DOMAIN h THEN h[k] ELSE d[k]]

\* C21: no verb operation, whether it succeeds or fails, changes the state of
\* the client: after any sequence of verb calls the base URL, the default
\* headers and the timeout are what they were, and the overrides of one call
\* are not present in any later call.
C21_VerbsLeaveClientUnchanged ==
  /\ defaultHeaders = SetterDefaults(Len(hist))
  /\ \A j \in VerbCalls :
       LET d == SetterDefaults(j - 1)
       IN /\ hist[j].defaults = d
          /\ reqs[hist[j].req].url = BaseUrl \o "/users"
          /\ reqs[hist[j].req].timeout = 10000
          /\ DOMAIN reqs[hist[j].req].sent \subseteq DOMAIN d \cup DOMAIN hist[j].arg

\* C21 witness: after a call with the overrides A and B that failed, a second
\* call has sent the configured defaults and nothing else.
C21_Witness ==
  /\ Len(reqs) = 2
  /\ Len(hist) = 2
  /\ hist[1].arg = ("A" :> "2") @@ ("B" :> "3")
  /\ reqs[1].out.kind = "raised"
  /\ hist[2].arg = EmptyObj
  /\ reqs[2].sent = ConfigDefaultHeaders
  /\ reqs[2].phase = "done"
  /\ defaultHeaders = ConfigDefaultHeaders

(***************************************************************************)
(* Properties of isValidEmail, checked under SpecChecks.                   *)
(***************************************************************************)
\* Whether the text is local@domain.tld: position a holds the only '@',
\* position d a '.', the three parts around them are non-empty, and no
\* character other than that '@' is white space (a white space or a line
\* terminator of Unicode) or an '@'.
IsSpace(u) ==
  \/ u \in 9 .. 13
  \/ u \in {32, 160, 5760, 8232, 8233, 8239, 8287, 12288, 65279}
  \/ (8192 <= u /\ u <= 8202)
LocalAtDomainDotTld(s) ==
  \E a \in 1 .. Len(s), d \in 1 .. Len(s) :
    /\ s[a] = 64
    /\ s[d] = 46
    /\ 1 < a
    /\ a + 1 < d
    /\ d < Len(s)
    /\ \A m \in (1 .. Len(s)) \ {a} : ~IsSpace(s[m]) /\ s[m] # 64

\* C22: isValidEmail accepts 'a@b.com' and rejects 'invalid-email' and the
\* empty string; in general it accepts exactly the strings of the form
\* local@domain.tld in which local, domain and tld are non-empty and contain
\* neither white space nor '@'.
C22_AcceptsExactlyLocalAtDomainDotTld ==
  (ck_op = "isValidEmail" /\ ck_in.email.tag = "string") =>
    /\ ck_out.kind = "returned"
    /\ ck_out.value.tag = "boolean"
    /\ ck_out.value.v <=> LocalAtDomainDotTld(ck_in.email.units)
    /\ ck_in.email.units = <<97, 64, 98, 46, 99, 111, 109>> => ck_out.value.v
    /\ ck_in.email.units \in {CodeUnits("invalid-email"), <<>>} => ~ck_out.value.v

\* C22 witness: a text with two dots after the '@' has been accepted.
C22_Witness ==
  /\ ck_op = "isValidEmail"
  /\ ck_in.email = JsUnits(<<97, 64, 46, 97, 46, 97>>)
  /\ ck_out = [kind |-> "returned", value |-> [tag |-> "boolean", v |-> TRUE]]

(***************************************************************************)
(* Properties of getAll on an empty result, checked under SpecChecks.      *)
(***************************************************************************)
\* C23: getAll handles empty results gracefully: when the service answers
\* GET /users with status 200 and an empty array, getAll (getAllUsers)
\* returns an array and does not raise.
C23_EmptyResultReturnsArray ==
  (/\ Settled({"users.getAll", "usersPage.getAllUsers"})
   /\ AnsweredArray
   /\ CkAnswer.response.status = 200
   /\ AnsweredJson
   /\ AnsweredItems = <<>>
   /\ CkTook > 0) =>
    /\ ck_out.kind = "returned"
    /\ ck_out.value.tag = "array"

(***************************************************************************)
(* Properties of getStatistics, checked under SpecChecks.                  *)
(***************************************************************************)
StatisticsOps == {"comments.getStatistics", "commentsPage.getCommentsStatistics"}
RECURSIVE SumOfBodyLengths(_)
SumOfBodyLengths(items) ==
  IF items = <<>> THEN 0
  ELSE Len(items[1].props["body"].s) + SumOfBodyLengths(Tail(items))
BodyLen(items, i) == Len(items[i].props["body"].s)
Stat(name) == ck_out.value.props[name]

\* C24: getStatistics(postId), for a post whose fetched comment list is
\* non-empty, returns total = the number of fetched comments, uniqueEmails =
\* the number of distinct emails among them (1 <= uniqueEmails <= total),
\* longestComment = the first fetched comment whose body is at least as long
\* as every other, shortestComment = the first whose body is at most as long
\* as every other, and averageBodyLength = sum of body lengths / total, with
\* shortest length * total <= sum <= longest length * total.
C24_StatisticsOfFetchedComments ==
  (/\ ck_op \in StatisticsOps
   /\ ck_out.kind = "returned"
   /\ AnsweredItems # <<>>) =>
    LET items == AnsweredItems
        n == Len(items)
        sum == SumOfBodyLengths(items)
    IN /\ Stat("total") = [tag |-> "number", v |-> n]
       /\ Stat("uniqueEmails").v = Cardinality({items[i].props["email"].s : i \in 1 .. n})
       /\ 1 <= Stat("uniqueEmails").v
       /\ Stat("uniqueEmails").v <= n
       /\ \E i \in 1 .. n :
            /\ Stat("longestComment") = items[i]
            /\ \A j \in 1 .. n : BodyLen(items, j) <= BodyLen(items, i)
            /\ \A j \in 1 .. (i - 1) : BodyLen(items, j) < BodyLen(items, i)
       /\ \E i \in 1 .. n :
            /\ Stat("shortestComment") = items[i]
            /\ \A j \in 1 .. n : BodyLen(items, j) >= BodyLen(items, i)
            /\ \A j \in 1 .. (i - 1) : BodyLen(items, j) > BodyLen(items, i)
       /\ Stat("averageBodyLength") = [tag |-> "number", num |-> sum, den |-> n]
       /\ Len(Stat("shortestComment").props["body"].s) * n <= sum
       /\ sum <= Len(Stat("longestComment").props["body"].s) * n

\* C24 witness: statistics returned for three comments whose bodies all have
\* four characters, the first being reported as the longest; they carry two
\* distinct emails.
C24_Witness ==
  /\ ck_op = "comments.getStatistics"
  /\ ck_out.kind = "returned"
  /\ CkAnswer.kind = "response"
  /\ CkAnswer.response.body.tag = "array"
  /\ Len(AnsweredItems) = 3
  /\ AnsweredItems[1].props["id"].v = 3
  /\ AnsweredItems[2].props["id"].v = 5
  /\ AnsweredItems[3].props["id"].v = 3
  /\ ck_out.value.props["longestComment"].props["id"].v = 3
  /\ ck_out.value.props["uniqueEmails"].v = 2
  /\ ck_out.value.props["averageBodyLength"].num = 12

(***************************************************************************)
(* Properties of setters called during a request, checked under            *)
(* SpecHeaders.                                                            *)
(***************************************************************************)
\* C25: the headers of a request are fixed when the verb operation is
\* invoked: they are the default headers in effect at that moment merged with
\* the call's overrides.  No later step, a setDefaultHeaders or setAuthToken
\* made while the request is in flight included, changes the headers of that
\* request; a setter affects only operations invoked after it.
C25_HeadersFixedAtInvocation ==
  [][/\ Len(reqs') >= Len(reqs)
     /\ \A i \in 1 .. Len(reqs) : reqs'[i].sent = reqs[i].sent
     /\ Len(reqs') > Len(reqs) =>
          /\ Len(reqs') = Len(reqs) + 1
          /\ Len(hist') = Len(hist) + 1
          /\ reqs'[Len(reqs')].sent =
               [k \in DOMAIN defaultHeaders \cup DOMAIN hist'[Len(hist')].arg |->
                  IF k \in DOMAIN hist'[Len(hist')].arg
                    THEN hist'[Len(hist')].arg[k]
                    ELSE defaultHeaders[k]]]_vars

\* C25 witness: setAuthToken was called while a request was in flight; the
\* defaults now hold the token and the headers of that request do not.
C25_Witness ==
  /\ Len(hist) = 2
  /\ hist[1].op = "get"
  /\ hist[2].op = "setAuthToken"
  /\ reqs[1].phase = "inflight"
  /\ "Authorization" \in DOMAIN defaultHeaders
  /\ "Authorization" \notin DOMAIN reqs[1].sent

(***************************************************************************)
(* Properties of the page object's validateErrorResponse, checked under    *)
(* SpecChecks.                                                             *)
(***************************************************************************)
\* The response exposes status, body and headers, its status is the expected
\* one, and its body has a non-empty string error field.
ErrorResponseAsExpected(r, expected) ==
  /\ r # [tag |-> "undefined"]
  /\ {"status", "body", "headers"} \subseteq DOMAIN r
  /\ r.status = expected
  /\ r.body.tag = "object"
  /\ "error" \in DOMAIN r.body.props
  /\ r.body.props["error"].tag = "string"
  /\ r.body.props["error"].s # ""

\* C26: BasePageObject.validateErrorResponse(response, expectedStatus)
\* completes and returns response.body exactly when response exposes status,
\* body and headers, its status equals expectedStatus, and response.body has a
\* non-empty string error field; otherwise it signals an assertion failure.
C26_ReturnsBodyIffErrorField ==
  ck_op = "page.validateErrorResponse" =>
    IF ErrorResponseAsExpected(ck_in.response,
          IF ck_in.expectedStatus.def THEN ck_in.expectedStatus.v ELSE 400)
      THEN ck_out = [kind |-> "returned", value |-> ck_in.response.body]
      ELSE ck_out.kind = "raised" /\ ck_out.error.origin = "chai"

(***************************************************************************)
(* Properties of getSorted, checked under SpecChecks.                      *)
(***************************************************************************)
SortedOps == {"comments.getSorted", "posts.getSorted"}
\* The later value v is out of the requested order after the value u.
OutOfOrder(u, v, order) ==
  \/ /\ u.tag = "number"
     /\ v.tag = "number"
     /\ IF order = "asc" THEN v.v < u.v ELSE v.v > u.v
  \/ /\ u.tag = "string"
     /\ v.tag = "string"
     /\ IF order = "asc" THEN LocaleCompare(v.s, u.s) < 0
        ELSE LocaleCompare(v.s, u.s) > 0

\* C27: getSorted(sortField, sortOrder) validates the ordering it receives:
\* if among the first 10 returned items some adjacent pair is out of the
\* requested order on sortField (for 'asc' a later value smaller than the
\* previous one, for 'desc' a later value larger), for numeric and for string
\* fields alike, it raises an assertion failure instead of returning the list.
C27_GetSortedRejectsDisorder ==
  (/\ Settled(SortedOps)
   /\ AnsweredArray
   /\ \E i \in 2 .. Len(AnsweredItems) :
        /\ i <= 10
        /\ AnsweredItems[i].tag = "object"
        /\ AnsweredItems[i - 1].tag = "object"
        /\ LET field == IF ck_in.sortField.def THEN ck_in.sortField.v ELSE "id"
               order == IF ck_in.sortOrder.def THEN ck_in.sortOrder.v ELSE "asc"
           IN /\ field \in DOMAIN AnsweredItems[i].props
              /\ field \in DOMAIN AnsweredItems[i - 1].props
              /\ OutOfOrder(AnsweredItems[i - 1].props[field],
                            AnsweredItems[i].props[field], order)) =>
    /\ ck_out.kind = "raised"
    /\ ck_out.error.origin = "chai"

(***************************************************************************)
(* The order of the events of one retry call, checked under SpecRetry.     *)
(***************************************************************************)
RtEv(k) == rt_log[k].ev

\* C28: within one retry call the events form the sequence attempt,
\* (delay, attempt)*, ending with the first success or with the final
\* failure: attempts never overlap, attempt i+1 starts only after attempt i
\* has failed and the delay base * 2^i has fully elapsed, the operation is
\* never invoked again after an attempt succeeds, and no delay is waited
\* after the last failed attempt.
C28_AttemptsAndDelaysAlternate ==
  /\ \A k \in 1 .. Len(rt_log) :
       /\ k = 1 => RtEv(k) = "call"
       /\ RtEv(k) = "call" =>
            /\ rt_log[k].val = Cardinality({j \in 1 .. (k - 1) : RtEv(j) = "call"})
            /\ k > 1 => /\ RtEv(k - 1) = "delay"
                        /\ rt_log[k - 1].val = rt_delay * 2 ^ (rt_log[k].val - 1)
            /\ k < Len(rt_log) => RtEv(k + 1) \in {"ok", "fail"}
       /\ RtEv(k) = "ok" => k = Len(rt_log) /\ RtEv(k - 1) = "call"
       /\ RtEv(k) = "fail" =>
            /\ RtEv(k - 1) = "call"
            /\ k < Len(rt_log) => RtEv(k + 1) = "delay"
       /\ RtEv(k) = "delay" =>
            /\ RtEv(k - 1) = "fail"
            /\ k < Len(rt_log)
            /\ RtEv(k + 1) = "call"
  /\ rt_pc = "running" <=> (rt_log # <<>> /\ RtEv(Len(rt_log)) = "call")
  /\ rt_pc = "sleeping" => RtEv(Len(rt_log)) = "fail"
  /\ (rt_pc \in {"returned", "thrown"} /\ rt_log # <<>>) =>
       /\ RtEv(Len(rt_log)) = (IF rt_pc = "returned" THEN "ok" ELSE "fail")
       /\ Cardinality({j \in 1 .. Len(rt_log) : RtEv(j) = "delay"})
            = Cardinality({j \in 1 .. Len(rt_log) : RtEv(j) = "call"}) - 1

\* C28 witness: a retry call with base delay 2 and maxRetries 2 has thrown
\* after the events attempt, failure, delay 2, attempt, failure, delay 4,
\* attempt, failure.
C28_Witness ==
  /\ rt_pc = "thrown"
  /\ rt_delay = 2
  /\ rt_maxRetries = 2
  /\ Len(rt_log) = 8
  /\ [k \in 1 .. 8 |-> rt_log[k].ev] =
       <<"call", "fail", "delay", "call", "fail", "delay", "call", "fail">>
  /\ rt_log[3].val = 2
  /\ rt_log[6].val = 4

(***************************************************************************)
(* Properties of several instances, checked under SpecInstances.           *)
(***************************************************************************)
\* The default headers instance c has after the first j entries of the
\* history, from the calls made on c alone.
RECURSIVE OwnDefaults(_, _)
OwnDefaults(c, j) ==
  IF j = 0 THEN [k \in {"Content-Type", "Accept"} |-> "application/json"]
  ELSE LET d == OwnDefaults(c, j - 1)
           h == IF hp_hist[j].client # c \/ hp_hist[j].op \in {"new", "get"} THEN <<>>
                ELSE IF hp_hist[j].op = "setAuthToken"
                  THEN "Authorization" :> ("Bearer " \o hp_hist[j].arg)
                ELSE hp_hist[j].arg
       IN [k \in DOMAIN d \cup DOMAIN h |-> IF k \in DOMAIN h THEN h[k] ELSE d[k]]

\* C29: client instances are isolated: although every HttpClient starts from
\* the same configured default-header object, setDefaultHeaders or
\* setAuthToken on one instance never changes the headers sent by another
\* instance (existing or created later) and never changes the shared
\* configuration's default headers.
C29_InstancesIsolated ==
  /\ hp_heap[1] = [k \in {"Content-Type", "Accept"} |-> "application/json"]
  /\ \A j \in 1 .. Len(hp_hist) :
       /\ hp_hist[j].op = "new" =>
            hp_heap[hp_clients[hp_hist[j].client].defaultHeaders]
              = OwnDefaults(hp_hist[j].client, Len(hp_hist))
       /\ hp_hist[j].op = "get" =>
            LET d == OwnDefaults(hp_hist[j].client, j - 1)
                o == hp_hist[j].arg
            IN hp_hist[j].sent =
                 [k \in DOMAIN d \cup DOMAIN o |-> IF k \in DOMAIN o THEN o[k] ELSE d[k]]

\* C29 witness: after setAuthToken on the first instance, a second instance
\* was created and has sent the configured defaults only, while the first
\* instance holds the token.
C29_Witness ==
  /\ Len(hp_hist) = 4
  /\ hp_hist[1].op = "new"
  /\ hp_hist[2].op = "setAuthToken"
  /\ hp_hist[3].op = "new"
  /\ hp_hist[4].op = "get"
  /\ hp_hist[4].client = 2
  /\ hp_hist[4].arg = <<>>
  /\ hp_hist[4].sent = ConfigDefaultHeaders
  /\ "Authorization" \in DOMAIN hp_heap[hp_clients[1].defaultHeaders]

(***************************************************************************)
(* Properties of the two setters, checked under SpecHeaders.               *)
(***************************************************************************)
\* The headers a setter call recorded in the history hands to the merge.
SetterHeaders(call) ==
  IF call.op = "setAuthToken" THEN "Authorization" :> ("Bearer " \o call.arg)
  ELSE call.arg
IsSetter(call) == call.op \in {"setDefaultHeaders", "setAuthToken"}

\* C30: setDefaultHeaders(h) merges rather than replaces: afterwards the
\* default headers contain every key of h with h's value and every previously
\* present key not in h with its previous value.  In particular setAuthToken
\* keeps Content-Type and Accept, after setAuthToken(t1) followed by
\* setAuthToken(t2) the only Authorization value is 'Bearer t2', and setting
\* the same headers twice equals setting them once.
C30_SettersMerge ==
  [][(Len(hist') = Len(hist) + 1 /\ IsSetter(hist'[Len(hist')])) =>
       LET call == hist'[Len(hist')]
           h == SetterHeaders(call)
       IN /\ DOMAIN defaultHeaders' = DOMAIN defaultHeaders \cup DOMAIN h
          /\ \A k \in DOMAIN h : defaultHeaders'[k] = h[k]
          /\ \A k \in DOMAIN defaultHeaders \ DOMAIN h :
               defaultHeaders'[k] = defaultHeaders[k]
          /\ call.op = "setAuthToken" =>
               /\ defaultHeaders'["Content-Type"] = "application/json"
               /\ defaultHeaders'["Accept"] = "application/json"
               /\ defaultHeaders'["Authorization"] = "Bearer " \o call.arg
          /\ (hist # <<>> /\ hist[Len(hist)] = call) =>
               defaultHeaders' = defaultHeaders]_vars

\* C30 witness: after setDefaultHeaders({A: '1'}), setAuthToken('t1') and
\* setAuthToken('t2') the defaults are the two configured headers, A: 1 and
\* Authorization: Bearer t2.
C30_Witness ==
  /\ Len(hist) = 3
  /\ hist[1] = [op |-> "setDefaultHeaders", arg |-> "A" :> "1"]
  /\ hist[2] = [op |-> "setAuthToken", arg |-> "t1"]
  /\ hist[3] = [op |-> "setAuthToken", arg |-> "t2"]
  /\ defaultHeaders =
       [k \in {"Content-Type", "Accept", "A", "Authorization"} |->
          IF k = "A" THEN "1"
          ELSE IF k = "Authorization" THEN "Bearer t2" ELSE "application/json"]

====
